---- MODULE Spec2Model ----
(***************************************************************************)
(* Presence, membership and typing coordination of globe-chat.             *)
(*                                                                         *)
(* The store (tables room_participants, user_presence, typing_indicators  *)
(* with their primary keys and triggers), the realtime channels of the     *)
(* supabase client, and the hook instances useRoomParticipants,            *)
(* usePresence and useTypingIndicator.  Every await of a hook is a place   *)
(* where the hook waits for the store: the request is applied and the      *)
(* continuation runs in one step, in any order relative to the other       *)
(* requests in flight.                                                     *)
(***************************************************************************)
EXTENDS Integers, Sequences, FiniteSets, TLC

VARIABLES
    room_participants,  \* table: <<room_id, user_name>> -> number of rows
    user_presence,      \* table: user_name -> row, for the users that have one
    typing_indicators,  \* table: <<room_id, user_name>> -> row, where there is one
    now,                \* wall clock, ms
    hookKind,           \* hook instance -> which hook it is
    roomId,             \* hook instance -> its roomId argument
    userName,           \* hook instance -> its userName argument
    channels,           \* the channels the client created, by creation order
    rp,                 \* useRoomParticipants instance -> refs, state and awaits
    pr,                 \* usePresence instance -> refs, state and awaits
    ty,                 \* useTypingIndicator instance -> refs, state and awaits
    messages,           \* table: the rows of messages, by id
    rm,                 \* useRealtimeMessages instance -> refs, state and awaits
    rooms,              \* table: room id -> its row of rooms
    home                \* HomePage: its state and route parameter

vars == <<room_participants, user_presence, typing_indicators, now, hookKind,
          roomId, userName, channels, rp, pr, ty, messages, rm, rooms, home>>

Hooks == {"h1", "h2"}
Users == {"alice", "bob", "carol"}
Rooms == {"r1", "r2"}
Null == "null"

\* Bounds of the exploration.
MaxChannels == 6    \* channel objects created in one behaviour
MaxStray == 1       \* reconnect timers pending besides the one the ref holds
MaxLoads == 2       \* loads of one instance in flight at once
MaxInFlight == 2    \* timer-issued requests of one instance in flight at once
MaxTicks == 5       \* heartbeat periods the clock advances
MaxTypingTicks == 3 \* typing refresh periods the clock advances
MaxSkewMs == 1      \* how far from a window's edge, in ms, the filters are probed
MaxSends == 2       \* sendMessage calls of one instance
KeyIntervalMs == 1000   \* time between two changes of the input field
MaxKeyTicks == 7    \* key intervals a run lasts
MaxPwLen == 2       \* characters of a password
MaxSubmits == 2     \* calls of handlePasswordSubmit

\* Program constants.
OnlineWindowMs == 60000
CleanupAgeMs == 120000
TypingWindowMs == 5000
TypingWindow2Ms == 10000
HeartbeatMs == 15000
TypingRefreshMs == 5000
TypingTimeoutMs == 3000
TypingTimeout2Ms == 5000
MatchWindowMs == 5000

----------------------------------------------------------------------------
(* The store *)

Key(r, u) == <<r, u>>

\* PRIMARY KEY (room_id, user_name): the insert is refused when a row exists.
InsertAccepted(tbl, r, u) == tbl[Key(r, u)] = 0

InsertParticipantNoKey(tbl, r, u) == [tbl EXCEPT ![Key(r, u)] = @ + 1]

InsertParticipant(tbl, r, u) ==
    IF InsertAccepted(tbl, r, u) THEN [tbl EXCEPT ![Key(r, u)] = @ + 1] ELSE tbl

DeleteParticipant(tbl, r, u) == [tbl EXCEPT ![Key(r, u)] = 0]

\* password_hash null.
NullHash == <<"null">>

\* A row of rooms; exists is false for an id no row was inserted for.
RoomRow(type, hash, active, n) ==
    [exists |-> TRUE, type |-> type, password_hash |-> hash,
     is_active |-> active, current_users |-> n]

\* SELECT COUNT(*) FROM room_participants WHERE room_id = r.
RECURSIVE CountRows(_, _, _)
CountRows(tbl, r, us) ==
    IF us = {} THEN 0
    ELSE LET u == CHOOSE x \in us : TRUE
         IN  tbl[Key(r, u)] + CountRows(tbl, r, us \ {u})

\* The SELECT policy on rooms: the rows a client's statements can read.
RoomVisible(row) ==
    row.exists /\ row.type \in {"public", "password"} /\ row.is_active

CountTriggerIncrement(rms, tbl, r) ==
    IF RoomVisible(rms[r])
    THEN [rms EXCEPT ![r].current_users = @ + 1]
    ELSE rms

\* update_room_participant_count: UPDATE rooms SET current_users = (count)
\* WHERE id = r, run for each inserted or deleted row with the rights of the
\* client whose statement fired it (the function is not SECURITY DEFINER), so
\* it updates the row only if the policies let that client read it.
CountTrigger(rms, tbl, r) ==
    IF RoomVisible(rms[r])
    THEN [rms EXCEPT ![r].current_users = CountRows(tbl, r, Users)]
    ELSE rms

\* Public rooms whose counts agree with a membership table.
RoomsFor(tbl) ==
    [r \in Rooms |-> RoomRow("public", NullHash, TRUE, CountRows(tbl, r, Users))]

\* HomePage before its first loadRooms answers. selectedRoom and currentRoom
\* are <<>> for null and <<room>> otherwise; submits and password record the
\* calls of handlePasswordSubmit and the password of the latest one.
HomeIdle ==
    [rooms |-> [r \in {} |-> 0], selectedRoom |-> <<>>, currentRoom |-> <<>>,
     showPasswordModal |-> FALSE, passwordError |-> "", roomId |-> Null,
     submits |-> 0, password |-> <<>>, creating |-> {}]

PresenceRow(online, seen, room) ==
    [is_online |-> online, last_seen |-> seen, current_room_id |-> room]

UpsertPresenceKeepRoom(tbl, u, row) ==
    [x \in (DOMAIN tbl) \cup {u} |->
        IF x /= u THEN tbl[x]
        ELSE IF u \in DOMAIN tbl /\ row.current_room_id = Null
        THEN [row EXCEPT !.current_room_id = tbl[u].current_room_id]
        ELSE row]

\* upsert ... onConflict: 'user_name': the whole row is replaced.
UpsertPresence(tbl, u, row) ==
    [x \in (DOMAIN tbl) \cup {u} |-> IF x = u THEN row ELSE tbl[x]]

\* update_user_presence(p_user_name, p_room_id), run by the insert trigger.
TriggerInsert(tbl, u, r, t) == UpsertPresence(tbl, u, PresenceRow(TRUE, t, r))

\* The delete branch of update_room_participant_count.
TriggerDelete(tbl, u, r) ==
    IF u \in DOMAIN tbl /\ tbl[u].current_room_id = r
    THEN [tbl EXCEPT ![u].current_room_id = Null]
    ELSE tbl

\* The rows of room r, as a select returns them.
RECURSIVE RowsOf(_, _, _)
RowsOf(tbl, r, us) ==
    IF us = {} THEN <<>>
    ELSE LET u == CHOOSE x \in us : \A y \in us : x = y \/ x /= y
             rest == RowsOf(tbl, r, us \ {u})
         IN  IF tbl[Key(r, u)] = 0 THEN rest
             ELSE IF tbl[Key(r, u)] = 1 THEN <<u>> \o rest
             ELSE <<u, u>> \o rest

SelectParticipants(tbl, r) == RowsOf(tbl, r, Users)

----------------------------------------------------------------------------
(* Realtime channels *)

\* A channel: who subscribed, on which table, with which room_id filter, its
\* state, and the change notifications the feed has not delivered yet.
Channel(h, feed, r) ==
    [owner |-> h, feed |-> feed, room |-> r, st |-> "live", ev |-> {}]

\* postgres_changes on a table: every live channel on it gets the payload.
NotifyWith(chs, feed, r, payload) ==
    [c \in DOMAIN chs |->
        IF chs[c].st = "live" /\ chs[c].feed = feed
           /\ (feed = "user_presence" \/ chs[c].room = r)
        THEN [chs[c] EXCEPT !.ev = @ \cup {payload}] ELSE chs[c]]

\* The handlers on room_participants and user_presence do not read the payload.
Notify(chs, feed, r) == NotifyWith(chs, feed, r, "change")

\* supabase.removeChannel(ref): the channel leaves; its CLOSED status follows.
\* A ref of 0 is the null ref.
RemoveChannel(chs, ref) ==
    IF ref /= 0 /\ chs[ref].st = "live"
    THEN [chs EXCEPT ![ref].st = "leaving", ![ref].ev = {}]
    ELSE chs

LiveChannels(h, feed) ==
    {c \in DOMAIN channels : channels[c].owner = h /\ channels[c].feed = feed
                             /\ channels[c].st = "live"}

----------------------------------------------------------------------------
(* useRoomParticipants *)

\* The embedded select room_participants -> user_presence!inner needs a
\* relationship between the two tables; the schema declares none, so the
\* store answers it with an error and the fallback queries run.
EmbedRelationship == FALSE

IsLiveInclusive(seen, window, t) == (t - seen) <= window

\* The comparison of the three filters: now - timestamp < window.
IsLive(seen, window, t) == (t - seen) < window

Entry(u, online) == [user_name |-> u, is_online |-> online]

\* The joined path: an inner join keeps the members that have a presence row.
EnhanceJoined(rows, presence, t) ==
    LET kept == SelectSeq(rows, LAMBDA u : u \in DOMAIN presence)
    IN  [i \in 1..Len(kept) |->
            Entry(kept[i], presence[kept[i]].is_online
                           /\ IsLive(presence[kept[i]].last_seen, OnlineWindowMs, t))]

EnhanceNoRoomCheck(rows, presence, r, t) ==
    [i \in 1..Len(rows) |->
        Entry(rows[i], rows[i] \in DOMAIN presence
                       /\ presence[rows[i]].is_online
                       /\ IsLive(presence[rows[i]].last_seen, OnlineWindowMs, t))]

\* The fallback path: participants.map(p => ...) over the two query results.
Enhance(rows, presence, r, t) ==
    [i \in 1..Len(rows) |->
        Entry(rows[i], rows[i] \in DOMAIN presence
                       /\ presence[rows[i]].is_online
                       /\ presence[rows[i]].current_room_id = r
                       /\ IsLive(presence[rows[i]].last_seen, OnlineWindowMs, t))]

RPIdle ==
    [phase |-> "unmounted", initPc |-> "idle", isJoinedRef |-> FALSE,
     leavePc |-> "idle", upserts |-> {}, loads |-> {}, participants |-> <<>>,
     channelRef |-> 0, presenceChannelRef |-> 0,
     reconnectTimeoutRef |-> FALSE, strayTimers |-> 0, heartbeatRef |-> FALSE,
     hidden |-> FALSE, unhandled |-> FALSE, offline |-> FALSE]

PresenceRequestKeepRoom(h, online, from) ==
    [row |-> PresenceRow(online, now, roomId[h]), from |-> from]

\* updatePresence(isOnline): the upsert request, as issued.
PresenceRequest(h, online, from) ==
    [row |-> PresenceRow(online, now, IF online THEN roomId[h] ELSE Null),
     from |-> from]

Load(stage, rows, init) == [stage |-> stage, rows |-> rows, init |-> init]

CanLoad(h) == Cardinality(rp[h].loads) < MaxLoads

\* setupSubscriptions: the channels after it ran for instance h.
SetupSubscriptionsNoRemove(chs, h) ==
    Append(Append(chs, Channel(h, "room_participants", roomId[h])),
           Channel(h, "user_presence", roomId[h]))

SetupSubscriptions(chs, h) ==
    LET cleaned == RemoveChannel(RemoveChannel(chs, rp[h].channelRef),
                                 rp[h].presenceChannelRef)
    IN  Append(Append(cleaned, Channel(h, "room_participants", roomId[h])),
               Channel(h, "user_presence", roomId[h]))

CanSetup == Len(channels) + 2 <= MaxChannels

\* "participants5" is the revision of the hook whose joinRoom reads the
\* error of its insert and throws it.
IsParticipantsHook(h) == hookKind[h] \in {"participants", "participants5"}

InsertErrorThrows(h) == hookKind[h] = "participants5"

\* The effect body: reset, initialize() up to its first await, heartbeat.
RPMount(h) ==
    /\ IsParticipantsHook(h)
    /\ rp[h].phase = "unmounted"
    /\ rp' = [rp EXCEPT ![h] = [@ EXCEPT !.phase = "mounted",
                                         !.participants = <<>>,
                                         !.isJoinedRef = FALSE,
                                         !.initPc = "join_select",
                                         !.heartbeatRef = TRUE]]
    /\ UNCHANGED <<rooms, home, messages, rm, room_participants, user_presence, now, hookKind, roomId, typing_indicators, pr, ty,
                   userName, channels>>

\* joinRoom after its select: insert when no row came back, else updatePresence.
RPJoinSelectResp(h) ==
    /\ rp[h].initPc = "join_select"
    /\ IF room_participants[Key(roomId[h], userName[h])] = 1
       THEN rp' = [rp EXCEPT ![h] = [@ EXCEPT
                        !.initPc = "join_presence",
                        !.upserts = @ \cup {PresenceRequest(h, TRUE, "join")}]]
       ELSE rp' = [rp EXCEPT ![h].initPc = "join_insert"]
    /\ UNCHANGED <<rooms, home, messages, rm, room_participants, user_presence, now, hookKind, roomId, typing_indicators, pr, ty,
                   userName, channels>>

\* joinRoom after its insert (its error is not read), then updatePresence(true).
RPJoinInsertResp(h) ==
    /\ rp[h].initPc = "join_insert"
    /\ LET r == roomId[h]
           u == userName[h]
       IN  /\ room_participants' = InsertParticipant(room_participants, r, u)
           /\ user_presence' = IF room_participants' /= room_participants
                               THEN TriggerInsert(user_presence, u, r, now)
                               ELSE user_presence
           /\ channels' = IF room_participants' /= room_participants
                          THEN Notify(Notify(channels, "room_participants", r),
                                      "user_presence", r)
                          ELSE channels
    /\ IF InsertErrorThrows(h) /\ room_participants' = room_participants
       THEN \* the error is thrown and caught: joinRoom returns, initialize
            \* goes on to await loadParticipants()
            rp' = [rp EXCEPT ![h] = [@ EXCEPT
                    !.initPc = "load",
                    !.loads = @ \cup {Load("embed", <<>>, TRUE)}]]
       ELSE rp' = [rp EXCEPT ![h] = [@ EXCEPT
                    !.initPc = "join_presence",
                    !.upserts = @ \cup {PresenceRequest(h, TRUE, "join")}]]
    /\ rooms' = IF room_participants' /= room_participants
                THEN CountTrigger(rooms, room_participants', roomId[h])
                ELSE rooms
    /\ UNCHANGED <<home, messages, rm, now, hookKind, roomId, typing_indicators, pr, ty, userName>>

\* The upsert joinRoom awaits: isJoinedRef is set, initialize goes on to
\* await loadParticipants().
RPJoinPresenceResp(h) ==
    /\ rp[h].initPc = "join_presence"
    /\ CanLoad(h)
    /\ \E q \in rp[h].upserts :
        /\ q.from = "join"
        /\ user_presence' = UpsertPresence(user_presence, userName[h], q.row)
        /\ channels' = Notify(channels, "user_presence", roomId[h])
        /\ rp' = [rp EXCEPT ![h] = [@ EXCEPT
                        !.upserts = @ \ {q},
                        !.isJoinedRef = TRUE,
                        !.initPc = "load",
                        !.loads = @ \cup {Load("embed", <<>>, TRUE)}]]
    /\ UNCHANGED <<rooms, home, messages, rm, room_participants, now, hookKind, roomId, typing_indicators, pr, ty, userName>>

\* An upsert nobody awaits (heartbeat): applied by the store.
RPPresenceResp(h) ==
    /\ \E q \in rp[h].upserts :
        /\ q.from = "none"
        /\ user_presence' = UpsertPresence(user_presence, userName[h], q.row)
        /\ channels' = Notify(channels, "user_presence", roomId[h])
        /\ rp' = [rp EXCEPT ![h].upserts = @ \ {q}]
    /\ UNCHANGED <<rooms, home, messages, rm, room_participants, now, hookKind, roomId, typing_indicators, pr, ty, userName>>

\* What the end of a loadParticipants call hands back to initialize():
\* setupSubscriptions() runs and initialize is done.
AfterLoad(h, l, view) ==
    IF l.init
    THEN /\ CanSetup
         /\ channels' = SetupSubscriptions(channels, h)
         /\ rp' = [rp EXCEPT ![h] = [@ EXCEPT
                        !.loads = @ \ {l},
                        !.participants = view,
                        !.initPc = "done",
                        !.channelRef = Len(channels) + 1,
                        !.presenceChannelRef = Len(channels) + 2]]
    ELSE /\ channels' = channels
         /\ rp' = [rp EXCEPT ![h] = [@ EXCEPT !.loads = @ \ {l},
                                              !.participants = view]]

\* loadParticipants after the embedded select.
RPLoadEmbedResp(h) ==
    /\ \E l \in rp[h].loads :
        /\ l.stage = "embed"
        /\ IF EmbedRelationship
           THEN AfterLoad(h, l, EnhanceJoined(
                    SelectParticipants(room_participants, roomId[h]),
                    user_presence, now))
           ELSE /\ rp' = [rp EXCEPT ![h].loads =
                            (@ \ {l}) \cup {Load("participants", <<>>, l.init)}]
                /\ channels' = channels
    /\ UNCHANGED <<rooms, home, messages, rm, room_participants, user_presence, now, hookKind, roomId, typing_indicators, pr, ty,
                   userName>>

\* loadParticipants after the fallback select on room_participants.
RPLoadParticipantsResp(h) ==
    /\ \E l \in rp[h].loads :
        /\ l.stage = "participants"
        /\ rp' = [rp EXCEPT ![h].loads = (@ \ {l}) \cup
                    {Load("presence",
                          SelectParticipants(room_participants, roomId[h]),
                          l.init)}]
    /\ UNCHANGED <<rooms, home, messages, rm, room_participants, user_presence, now, hookKind, roomId, typing_indicators, pr, ty,
                   userName, channels>>

\* loadParticipants after the select on user_presence: setParticipants.
RPLoadPresenceResp(h) ==
    /\ \E l \in rp[h].loads :
        /\ l.stage = "presence"
        /\ AfterLoad(h, l, Enhance(l.rows, user_presence, roomId[h], now))
    /\ UNCHANGED <<rooms, home, messages, rm, room_participants, user_presence, now, hookKind, roomId, typing_indicators, pr, ty,
                   userName>>

\* The postgres_changes handler of either channel: loadParticipants().
RPFeedEvent(c) ==
    /\ c \in DOMAIN channels
    /\ hookKind[channels[c].owner] = "participants"
    /\ channels[c].st = "live"
    /\ channels[c].ev /= {}
    /\ CanLoad(channels[c].owner)
    /\ channels' = [channels EXCEPT ![c].ev = {}]
    /\ rp' = [rp EXCEPT ![channels[c].owner].loads =
                @ \cup {Load("embed", <<>>, FALSE)}]
    /\ UNCHANGED <<rooms, home, messages, rm, room_participants, user_presence, now, hookKind, roomId, typing_indicators, pr, ty,
                   userName>>

\* The subscribe status callback on CLOSED or CHANNEL_ERROR: the participants
\* channel arms setTimeout(setupSubscriptions, 2000) over whatever the ref
\* held; the presence channel only logs.
RPOnClosed(h, feed) ==
    IF feed = "room_participants"
    THEN /\ rp[h].reconnectTimeoutRef => rp[h].strayTimers < MaxStray
         /\ rp' = [rp EXCEPT ![h] = [@ EXCEPT
                        !.strayTimers = IF rp[h].reconnectTimeoutRef
                                        THEN @ + 1 ELSE @,
                        !.reconnectTimeoutRef = TRUE]]
    ELSE rp' = rp

\* The feed drops a live channel.
RPFeedClosed(c) ==
    /\ c \in DOMAIN channels
    /\ hookKind[channels[c].owner] = "participants"
    /\ channels[c].st = "live"
    /\ channels' = [channels EXCEPT ![c].st = "closed", ![c].ev = {}]
    /\ RPOnClosed(channels[c].owner, channels[c].feed)
    /\ UNCHANGED <<rooms, home, messages, rm, room_participants, user_presence, now, hookKind, roomId, typing_indicators, pr, ty,
                   userName>>

\* A removed channel has left: its status callback gets CLOSED.
RPChannelLeft(c) ==
    /\ c \in DOMAIN channels
    /\ hookKind[channels[c].owner] = "participants"
    /\ channels[c].st = "leaving"
    /\ channels' = [channels EXCEPT ![c].st = "closed"]
    /\ RPOnClosed(channels[c].owner, channels[c].feed)
    /\ UNCHANGED <<rooms, home, messages, rm, room_participants, user_presence, now, hookKind, roomId, typing_indicators, pr, ty,
                   userName>>

\* A reconnect timer fires: setupSubscriptions().
RPReconnectFire(h) ==
    /\ hookKind[h] = "participants"
    /\ CanSetup
    /\ \E held \in BOOLEAN :
        /\ IF held THEN rp[h].reconnectTimeoutRef ELSE rp[h].strayTimers > 0
        /\ channels' = SetupSubscriptions(channels, h)
        /\ rp' = [rp EXCEPT ![h] = [@ EXCEPT
                        !.reconnectTimeoutRef = IF held THEN FALSE ELSE @,
                        !.strayTimers = IF held THEN @ ELSE @ - 1,
                        !.channelRef = Len(channels) + 1,
                        !.presenceChannelRef = Len(channels) + 2]]
    /\ UNCHANGED <<rooms, home, messages, rm, room_participants, user_presence, now, hookKind, roomId, typing_indicators, pr, ty,
                   userName>>

\* The heartbeat interval: updatePresence(true), not awaited.
RPHeartbeat(h) ==
    /\ hookKind[h] = "participants"
    /\ rp[h].heartbeatRef
    /\ Cardinality(rp[h].upserts) < MaxInFlight
    /\ rp' = [rp EXCEPT ![h].upserts = @ \cup {PresenceRequest(h, TRUE, "none")}]
    /\ UNCHANGED <<rooms, home, messages, rm, room_participants, user_presence, now, hookKind, roomId, typing_indicators, pr, ty,
                   userName, channels>>

\* visibilitychange with document.hidden: updatePresence(false).
RPHidden(h) ==
    /\ hookKind[h] = "participants"
    /\ rp[h].phase = "mounted"
    /\ ~rp[h].hidden
    /\ Cardinality(rp[h].upserts) < MaxInFlight
    /\ rp' = [rp EXCEPT ![h] = [@ EXCEPT
                    !.hidden = TRUE,
                    !.upserts = @ \cup {PresenceRequest(h, FALSE, "none")}]]
    /\ UNCHANGED <<rooms, home, messages, rm, room_participants, user_presence, now, hookKind, roomId,
                   typing_indicators, pr, ty, userName, channels>>

\* visibilitychange back to visible: updatePresence(true), loadParticipants().
RPVisible(h) ==
    /\ hookKind[h] = "participants"
    /\ rp[h].phase = "mounted"
    /\ rp[h].hidden
    /\ Cardinality(rp[h].upserts) < MaxInFlight
    /\ CanLoad(h)
    /\ rp' = [rp EXCEPT ![h] = [@ EXCEPT
                    !.hidden = FALSE,
                    !.upserts = @ \cup {PresenceRequest(h, TRUE, "none")},
                    !.loads = @ \cup {Load("embed", <<>>, FALSE)}]]
    /\ UNCHANGED <<rooms, home, messages, rm, room_participants, user_presence, now, hookKind, roomId,
                   typing_indicators, pr, ty, userName, channels>>

\* beforeunload: updatePresence(false); the page and its timers are gone and
\* the effect cleanup does not run.  Taken here once initialize() is through.
RPBeforeUnload(h) ==
    /\ hookKind[h] = "participants"
    /\ rp[h].phase = "mounted"
    /\ rp[h].initPc = "done"
    /\ rp[h].loads = {}
    /\ Cardinality(rp[h].upserts) < MaxInFlight
    /\ channels' = [c \in DOMAIN channels |->
                        IF channels[c].owner = h
                        THEN [channels[c] EXCEPT !.st = "closed", !.ev = {}]
                        ELSE channels[c]]
    /\ rp' = [rp EXCEPT ![h] = [@ EXCEPT
                    !.phase = "closed",
                    !.heartbeatRef = FALSE,
                    !.reconnectTimeoutRef = FALSE,
                    !.strayTimers = 0,
                    !.upserts = @ \cup {PresenceRequest(h, FALSE, "none")}]]
    /\ UNCHANGED <<rooms, home, messages, rm, room_participants, user_presence, now, hookKind, roomId,
                   typing_indicators, pr, ty, userName>>

\* The effect cleanup: timers, channels, listeners, then leaveRoom() up to
\* its first await.
RPCleanup(h) ==
    /\ hookKind[h] = "participants"
    /\ rp[h].phase = "mounted"
    /\ channels' = RemoveChannel(RemoveChannel(channels, rp[h].channelRef),
                                 rp[h].presenceChannelRef)
    /\ rp' = [rp EXCEPT ![h] = [@ EXCEPT !.phase = "cleaned",
                                         !.reconnectTimeoutRef = FALSE,
                                         !.heartbeatRef = FALSE,
                                         !.channelRef = 0,
                                         !.presenceChannelRef = 0,
                                         !.leavePc = "delete"]]
    /\ UNCHANGED <<rooms, home, messages, rm, room_participants, user_presence, now, hookKind, roomId, typing_indicators, pr, ty,
                   userName>>

\* leaveRoom after its delete, then updatePresence(false).
RPLeaveDeleteResp(h) ==
    /\ rp[h].leavePc = "delete"
    /\ LET r == roomId[h]
           u == userName[h]
           had == room_participants[Key(r, u)] > 0
       IN  /\ room_participants' = DeleteParticipant(room_participants, r, u)
           /\ user_presence' = IF had THEN TriggerDelete(user_presence, u, r)
                               ELSE user_presence
           /\ channels' =
                IF ~had THEN channels
                ELSE IF user_presence' /= user_presence
                THEN Notify(Notify(channels, "room_participants", r),
                            "user_presence", r)
                ELSE Notify(channels, "room_participants", r)
    /\ rp' = [rp EXCEPT ![h] = [@ EXCEPT
                    !.leavePc = "presence",
                    !.upserts = @ \cup {PresenceRequest(h, FALSE, "leave")}]]
    /\ rooms' = IF room_participants' /= room_participants
                THEN CountTrigger(rooms, room_participants', roomId[h])
                ELSE rooms
    /\ UNCHANGED <<home, messages, rm, now, hookKind, roomId, typing_indicators, pr, ty, userName>>

\* The upsert leaveRoom awaits: isJoinedRef is reset.
RPLeavePresenceResp(h) ==
    /\ rp[h].leavePc = "presence"
    /\ \E q \in rp[h].upserts :
        /\ q.from = "leave"
        /\ user_presence' = UpsertPresence(user_presence, userName[h], q.row)
        /\ channels' = Notify(channels, "user_presence", roomId[h])
        /\ rp' = [rp EXCEPT ![h] = [@ EXCEPT !.upserts = @ \ {q},
                                             !.isJoinedRef = FALSE,
                                             !.leavePc = "done"]]
    /\ UNCHANGED <<rooms, home, messages, rm, room_participants, now, hookKind, roomId, typing_indicators, pr, ty, userName>>

RPNext ==
    \/ \E h \in Hooks :
        \/ RPMount(h)
        \/ RPJoinSelectResp(h)
        \/ RPJoinInsertResp(h)
        \/ RPJoinPresenceResp(h)
        \/ RPPresenceResp(h)
        \/ RPLoadEmbedResp(h)
        \/ RPLoadParticipantsResp(h)
        \/ RPLoadPresenceResp(h)
        \/ RPReconnectFire(h)
        \/ RPHeartbeat(h)
        \/ RPCleanup(h)
        \/ RPLeaveDeleteResp(h)
        \/ RPLeavePresenceResp(h)
    \/ \E c \in 1..MaxChannels :
        \/ RPFeedEvent(c)
        \/ RPFeedClosed(c)
        \/ RPChannelLeft(c)

----------------------------------------------------------------------------
(* usePresence *)

PRIdle ==
    [phase |-> "unmounted", upserts |-> {}, loads |-> 0, sweeps |-> {},
     onlineUsers |-> {}, connectionStatus |-> "connecting", channelRef |-> 0,
     heartbeatRef |-> FALSE, refreshRef |-> FALSE, cleanupRef |-> FALSE,
     timers |-> 0, unhandled |-> FALSE, hidden |-> FALSE, offline |-> FALSE]

\* loadOnlineUsers: the rows of the room, then the filter on is_online and age.
LoadOnlineUsers(presence, r, t) ==
    {u \in DOMAIN presence :
        /\ presence[u].current_room_id = r
        /\ presence[u].is_online
        /\ IsLive(presence[u].last_seen, OnlineWindowMs, t)}

\* The cleanup interval's update: is_online = false where last_seen < cutoff.
SweepPresenceInclusive(tbl, cutoff) ==
    [u \in DOMAIN tbl |->
        IF tbl[u].last_seen <= cutoff THEN [tbl[u] EXCEPT !.is_online = FALSE]
        ELSE tbl[u]]

SweepPresence(tbl, cutoff) ==
    [u \in DOMAIN tbl |->
        IF tbl[u].last_seen < cutoff THEN [tbl[u] EXCEPT !.is_online = FALSE]
        ELSE tbl[u]]

\* setupPresenceSubscription: the channels after it ran for instance h.
SetupPresenceSubscription(chs, h) ==
    Append(RemoveChannel(chs, pr[h].channelRef),
           Channel(h, "user_presence", roomId[h]))

CanSubscribe == Len(channels) + 1 <= MaxChannels

\* The effect body: updatePresence(true), loadOnlineUsers(),
\* setupPresenceSubscription() and the three intervals.
PRMount(h) ==
    /\ hookKind[h] = "presence"
    /\ pr[h].phase = "unmounted"
    /\ CanSubscribe
    /\ channels' = SetupPresenceSubscription(channels, h)
    /\ pr' = [pr EXCEPT ![h] = [@ EXCEPT
                    !.phase = "mounted",
                    !.upserts = @ \cup {PresenceRequest(h, TRUE, "none")},
                    !.loads = @ + 1,
                    !.channelRef = Len(channels) + 1,
                    !.heartbeatRef = TRUE,
                    !.refreshRef = TRUE,
                    !.cleanupRef = TRUE]]
    /\ UNCHANGED <<rooms, home, messages, rm, room_participants, user_presence, typing_indicators, now,
                   hookKind, roomId, userName, rp, ty>>

\* updatePresence after its upsert: setConnectionStatus('connected').
PRPresenceResp(h) ==
    /\ \E q \in pr[h].upserts :
        /\ user_presence' = UpsertPresence(user_presence, userName[h], q.row)
        /\ channels' = Notify(channels, "user_presence", roomId[h])
        /\ pr' = [pr EXCEPT ![h] = [@ EXCEPT !.upserts = @ \ {q},
                                             !.connectionStatus = "connected"]]
    /\ UNCHANGED <<rooms, home, messages, rm, room_participants, typing_indicators, now, hookKind, roomId,
                   userName, rp, ty>>

\* loadOnlineUsers after its select: setOnlineUsers.
PRLoadResp(h) ==
    /\ pr[h].loads > 0
    /\ pr' = [pr EXCEPT ![h] = [@ EXCEPT
                    !.loads = @ - 1,
                    !.onlineUsers = LoadOnlineUsers(user_presence, roomId[h], now)]]
    /\ UNCHANGED <<rooms, home, messages, rm, room_participants, user_presence, typing_indicators, now,
                   hookKind, roomId, userName, channels, rp, ty>>

\* The postgres_changes handler: loadOnlineUsers().
PRFeedEvent(c) ==
    /\ c \in DOMAIN channels
    /\ hookKind[channels[c].owner] = "presence"
    /\ channels[c].st = "live"
    /\ channels[c].ev /= {}
    /\ pr[channels[c].owner].loads < MaxLoads
    /\ channels' = [channels EXCEPT ![c].ev = {}]
    /\ pr' = [pr EXCEPT ![channels[c].owner].loads = @ + 1]
    /\ UNCHANGED <<rooms, home, messages, rm, room_participants, user_presence, typing_indicators, now,
                   hookKind, roomId, userName, rp, ty>>

\* The subscribe status callback on CLOSED or CHANNEL_ERROR:
\* setConnectionStatus('disconnected'); setTimeout(setupPresenceSubscription, 2000).
PROnClosed(h) ==
    /\ pr[h].timers <= MaxStray
    /\ pr' = [pr EXCEPT ![h] = [@ EXCEPT !.connectionStatus = "disconnected",
                                         !.timers = @ + 1]]

PRFeedClosed(c) ==
    /\ c \in DOMAIN channels
    /\ hookKind[channels[c].owner] = "presence"
    /\ channels[c].st = "live"
    /\ channels' = [channels EXCEPT ![c].st = "closed", ![c].ev = {}]
    /\ PROnClosed(channels[c].owner)
    /\ UNCHANGED <<rooms, home, messages, rm, room_participants, user_presence, typing_indicators, now,
                   hookKind, roomId, userName, rp, ty>>

PRChannelLeft(c) ==
    /\ c \in DOMAIN channels
    /\ hookKind[channels[c].owner] = "presence"
    /\ channels[c].st = "leaving"
    /\ channels' = [channels EXCEPT ![c].st = "closed"]
    /\ PROnClosed(channels[c].owner)
    /\ UNCHANGED <<rooms, home, messages, rm, room_participants, user_presence, typing_indicators, now,
                   hookKind, roomId, userName, rp, ty>>

\* A reconnect timeout fires: setupPresenceSubscription().
PRReconnectFire(h) ==
    /\ hookKind[h] = "presence"
    /\ pr[h].timers > 0
    /\ CanSubscribe
    /\ channels' = SetupPresenceSubscription(channels, h)
    /\ pr' = [pr EXCEPT ![h] = [@ EXCEPT !.timers = @ - 1,
                                         !.channelRef = Len(channels) + 1]]
    /\ UNCHANGED <<rooms, home, messages, rm, room_participants, user_presence, typing_indicators, now,
                   hookKind, roomId, userName, rp, ty>>

\* The heartbeat interval: updatePresence(true).
PRHeartbeat(h) ==
    /\ hookKind[h] = "presence"
    /\ pr[h].heartbeatRef
    /\ Cardinality(pr[h].upserts) < MaxInFlight
    /\ pr' = [pr EXCEPT ![h].upserts = @ \cup {PresenceRequest(h, TRUE, "none")}]
    /\ UNCHANGED <<rooms, home, messages, rm, room_participants, user_presence, typing_indicators, now,
                   hookKind, roomId, userName, channels, rp, ty>>

\* The refresh interval: loadOnlineUsers().
PRRefresh(h) ==
    /\ hookKind[h] = "presence"
    /\ pr[h].refreshRef
    /\ pr[h].loads < MaxLoads
    /\ pr' = [pr EXCEPT ![h].loads = @ + 1]
    /\ UNCHANGED <<rooms, home, messages, rm, room_participants, user_presence, typing_indicators, now,
                   hookKind, roomId, userName, channels, rp, ty>>

\* The cleanup interval, up to its await: the update of the rows of 2 minutes ago.
PRSweep(h) ==
    /\ hookKind[h] = "presence"
    /\ pr[h].cleanupRef
    /\ Cardinality(pr[h].sweeps) < MaxInFlight
    /\ pr' = [pr EXCEPT ![h].sweeps = @ \cup {now - CleanupAgeMs}]
    /\ UNCHANGED <<rooms, home, messages, rm, room_participants, user_presence, typing_indicators, now,
                   hookKind, roomId, userName, channels, rp, ty>>

\* The cleanup interval after its update: loadOnlineUsers().
PRSweepResp(h) ==
    /\ pr[h].loads < MaxLoads
    /\ \E cutoff \in pr[h].sweeps :
        /\ user_presence' = SweepPresence(user_presence, cutoff)
        /\ channels' = IF user_presence' /= user_presence
                       THEN Notify(channels, "user_presence", roomId[h])
                       ELSE channels
        /\ pr' = [pr EXCEPT ![h] = [@ EXCEPT !.sweeps = @ \ {cutoff},
                                             !.loads = @ + 1]]
    /\ UNCHANGED <<rooms, home, messages, rm, room_participants, typing_indicators, now, hookKind, roomId,
                   userName, rp, ty>>

\* The effect cleanup: the three intervals, the channel, updatePresence(false).
PRCleanup(h) ==
    /\ hookKind[h] = "presence"
    /\ pr[h].phase = "mounted"
    /\ channels' = RemoveChannel(channels, pr[h].channelRef)
    /\ pr' = [pr EXCEPT ![h] = [@ EXCEPT
                    !.phase = "cleaned",
                    !.heartbeatRef = FALSE,
                    !.refreshRef = FALSE,
                    !.cleanupRef = FALSE,
                    !.upserts = @ \cup {PresenceRequest(h, FALSE, "none")}]]
    /\ UNCHANGED <<rooms, home, messages, rm, room_participants, user_presence, typing_indicators, now,
                   hookKind, roomId, userName, rp, ty>>

PRNext ==
    \/ \E h \in Hooks :
        \/ PRMount(h)
        \/ PRPresenceResp(h)
        \/ PRLoadResp(h)
        \/ PRReconnectFire(h)
        \/ PRHeartbeat(h)
        \/ PRRefresh(h)
        \/ PRSweep(h)
        \/ PRSweepResp(h)
        \/ PRCleanup(h)
    \/ \E c \in 1..MaxChannels :
        \/ PRFeedEvent(c)
        \/ PRFeedClosed(c)
        \/ PRChannelLeft(c)

----------------------------------------------------------------------------
(* useTypingIndicator: the revision with the payload handler ("typing") and
   the later revision with setupTypingSubscription ("typing2") *)

TYIdle ==
    [phase |-> "unmounted", isTyping |-> FALSE, isTypingSeen |-> FALSE,
     typingTimeoutRef |-> FALSE, upserts |-> <<>>, loads |-> 0,
     typingUsers |-> <<>>, channelRef |-> 0, cleanupTimeoutRef |-> FALSE,
     refreshRef |-> FALSE, timers |-> 0, unhandled |-> FALSE,
     armedAt |-> 0, lastCall |-> 0, stale |-> <<>>]

IsTypingHook(h) == hookKind[h] \in {"typing", "typing2"}

TypingWindow(h) == IF hookKind[h] = "typing" THEN TypingWindowMs ELSE TypingWindow2Ms

TypingRow(typing, t) == [is_typing |-> typing, last_typed |-> t]

\* upsert ... onConflict: 'room_id,user_name'.
UpsertTyping(tbl, r, u, row) ==
    [k \in (DOMAIN tbl) \cup {Key(r, u)} |-> IF k = Key(r, u) THEN row ELSE tbl[k]]

RECURSIVE SeqOf(_)
SeqOf(us) ==
    IF us = {} THEN <<>>
    ELSE LET u == CHOOSE x \in us : \A y \in us : x = y \/ x /= y
         IN  <<u>> \o SeqOf(us \ {u})

LoadTypingUsersNoWindow(tbl, r, self, window, t) ==
    SeqOf({u \in Users :
            /\ Key(r, u) \in DOMAIN tbl
            /\ tbl[Key(r, u)].is_typing
            /\ u /= self})

\* loadTypingUsers: the typing rows of the room but one's own, then the filter
\* on age, then the names.
LoadTypingUsers(tbl, r, self, window, t) ==
    SeqOf({u \in Users :
            /\ Key(r, u) \in DOMAIN tbl
            /\ tbl[Key(r, u)].is_typing
            /\ u /= self
            /\ IsLive(tbl[Key(r, u)].last_typed, window, t)})

Without(seq, u) == SelectSeq(seq, LAMBDA x : x /= u)

Includes(seq, u) == \E i \in 1..Len(seq) : seq[i] = u

\* The payload handler of the first revision, on an INSERT or UPDATE payload.
PatchTypingUsers(prev, self, e) ==
    IF e.user_name = self THEN prev
    ELSE IF e.is_typing
         THEN IF Includes(prev, e.user_name) THEN prev
              ELSE Append(prev, e.user_name)
         ELSE Without(prev, e.user_name)

\* The channels after the typing subscription was set up for instance h.
SetupTypingSubscription(chs, h) ==
    Append(RemoveChannel(chs, ty[h].channelRef),
           Channel(h, "typing_indicators", roomId[h]))

CanSend(h) == Len(ty[h].upserts) < MaxInFlight

\* The effect body: loadTypingUsers(), the subscription, the intervals.
TYMount(h) ==
    /\ IsTypingHook(h)
    /\ ty[h].phase = "unmounted"
    /\ CanSubscribe
    /\ channels' = SetupTypingSubscription(channels, h)
    /\ ty' = [ty EXCEPT ![h] = [@ EXCEPT
                    !.phase = "mounted",
                    !.loads = @ + 1,
                    !.channelRef = Len(channels) + 1,
                    !.cleanupTimeoutRef = TRUE,
                    !.refreshRef = (hookKind[h] = "typing2")]]
    /\ UNCHANGED <<rooms, home, messages, rm, room_participants, user_presence, typing_indicators, now,
                   hookKind, roomId, userName, rp, pr>>

\* What startTyping reads: the isTyping of the render that made the callback.
StartTypingReturnsEarly(h) == ty[h].isTypingSeen

\* The delay of the inactivity timeout startTyping arms, per revision.
TypingTimeoutOf(h) ==
    IF hookKind[h] = "typing2" THEN TypingTimeout2Ms ELSE TypingTimeoutMs

\* startTyping stopped by its guard: nothing is set, sent or re-armed.
\* (lastCall records when startTyping was last called; armedAt when the
\* pending timeout was armed.)
TYStartTypingEarly(h) ==
    /\ IsTypingHook(h)
    /\ ty[h].phase = "mounted"
    /\ StartTypingReturnsEarly(h)
    /\ ty[h].lastCall /= now
    /\ ty' = [ty EXCEPT ![h].lastCall = now]
    /\ UNCHANGED <<rooms, home, messages, rm, room_participants, user_presence, typing_indicators, now,
                   hookKind, roomId, userName, channels, rp, pr>>

\* startTyping past its guard: setIsTyping(true), updateTypingStatus(true),
\* the inactivity timeout re-armed.
TYStartTyping(h) ==
    /\ IsTypingHook(h)
    /\ ty[h].phase = "mounted"
    /\ ~StartTypingReturnsEarly(h)
    /\ CanSend(h)
    /\ ty' = [ty EXCEPT ![h] = [@ EXCEPT
                    !.isTyping = TRUE,
                    !.upserts = Append(@, TypingRow(TRUE, now)),
                    !.typingTimeoutRef = TRUE,
                    !.armedAt = now,
                    !.lastCall = now]]
    /\ UNCHANGED <<rooms, home, messages, rm, room_participants, user_presence, typing_indicators, now,
                   hookKind, roomId, userName, channels, rp, pr>>

\* stopTyping past its guard: setIsTyping(false), updateTypingStatus(false),
\* clearTimeout.
TYStopTyping(h) ==
    /\ IsTypingHook(h)
    /\ ty[h].phase = "mounted"
    /\ ty[h].isTypingSeen
    /\ CanSend(h)
    /\ ty' = [ty EXCEPT ![h] = [@ EXCEPT
                    !.isTyping = FALSE,
                    !.upserts = Append(@, TypingRow(FALSE, now)),
                    !.typingTimeoutRef = FALSE,
                    !.armedAt = 0,
                    !.lastCall = 0]]
    /\ UNCHANGED <<rooms, home, messages, rm, room_participants, user_presence, typing_indicators, now,
                   hookKind, roomId, userName, channels, rp, pr>>

\* The component renders again: the callbacks close over the current isTyping.
TYRender(h) ==
    /\ IsTypingHook(h)
    /\ ty[h].isTypingSeen /= ty[h].isTyping
    /\ ty' = [ty EXCEPT ![h].isTypingSeen = ty[h].isTyping]
    /\ UNCHANGED <<rooms, home, messages, rm, room_participants, user_presence, typing_indicators, now,
                   hookKind, roomId, userName, channels, rp, pr>>

\* The inactivity timeout fires: setIsTyping(false), updateTypingStatus(false).
TYTimeout(h) ==
    /\ IsTypingHook(h)
    /\ ty[h].typingTimeoutRef
    /\ CanSend(h)
    /\ ty' = [ty EXCEPT ![h] = [@ EXCEPT
                    !.typingTimeoutRef = FALSE,
                    !.armedAt = 0,
                    !.lastCall = 0,
                    !.isTyping = FALSE,
                    !.upserts = Append(@, TypingRow(FALSE, now))]]
    /\ UNCHANGED <<rooms, home, messages, rm, room_participants, user_presence, typing_indicators, now,
                   hookKind, roomId, userName, channels, rp, pr>>

RemoveAt(seq, i) == SubSeq(seq, 1, i - 1) \o SubSeq(seq, i + 1, Len(seq))

\* updateTypingStatus after its upsert.
TYUpsertResp(h) ==
    /\ IsTypingHook(h)
    /\ \E i \in 1..Len(ty[h].upserts) :
        /\ typing_indicators' = UpsertTyping(typing_indicators, roomId[h],
                                             userName[h], ty[h].upserts[i])
        /\ channels' = NotifyWith(channels, "typing_indicators", roomId[h],
                                  [user_name |-> userName[h],
                                   is_typing |-> ty[h].upserts[i].is_typing])
        /\ ty' = [ty EXCEPT ![h].upserts = RemoveAt(@, i)]
    /\ UNCHANGED <<rooms, home, messages, rm, room_participants, user_presence, now, hookKind, roomId,
                   userName, rp, pr>>

\* loadTypingUsers after its select: setTypingUsers.
TYLoadResp(h) ==
    /\ IsTypingHook(h)
    /\ ty[h].loads > 0
    /\ ty' = [ty EXCEPT ![h] = [@ EXCEPT
                    !.loads = @ - 1,
                    !.typingUsers = LoadTypingUsers(typing_indicators, roomId[h],
                                        userName[h], TypingWindow(h), now)]]
    /\ UNCHANGED <<rooms, home, messages, rm, room_participants, user_presence, typing_indicators, now,
                   hookKind, roomId, userName, channels, rp, pr>>

\* The postgres_changes handler: the first revision patches typingUsers from
\* the payload, the later one calls loadTypingUsers().
TYFeedEvent(c) ==
    /\ c \in DOMAIN channels
    /\ IsTypingHook(channels[c].owner)
    /\ channels[c].st = "live"
    /\ \E e \in channels[c].ev :
        LET h == channels[c].owner
        IN  /\ channels' = [channels EXCEPT ![c].ev = @ \ {e}]
            /\ IF hookKind[h] = "typing"
               THEN ty' = [ty EXCEPT ![h].typingUsers =
                                PatchTypingUsers(@, userName[h], e)]
               ELSE /\ ty[h].loads < MaxLoads
                    /\ ty' = [ty EXCEPT ![h].loads = @ + 1]
    /\ UNCHANGED <<rooms, home, messages, rm, room_participants, user_presence, typing_indicators, now,
                   hookKind, roomId, userName, rp, pr>>

\* An interval fires: loadTypingUsers().
TYRefresh(h) ==
    /\ IsTypingHook(h)
    /\ ty[h].cleanupTimeoutRef \/ ty[h].refreshRef
    /\ ty[h].loads < MaxLoads
    /\ ty' = [ty EXCEPT ![h].loads = @ + 1]
    /\ UNCHANGED <<rooms, home, messages, rm, room_participants, user_presence, typing_indicators, now,
                   hookKind, roomId, userName, channels, rp, pr>>

\* The subscribe status callback on CLOSED or CHANNEL_ERROR: the first
\* revision logs; the later one arms setTimeout(setupTypingSubscription, 3000).
TYOnClosed(h) ==
    IF hookKind[h] = "typing" THEN ty' = ty
    ELSE /\ ty[h].timers <= MaxStray
         /\ ty' = [ty EXCEPT ![h].timers = @ + 1]

TYFeedClosed(c) ==
    /\ c \in DOMAIN channels
    /\ IsTypingHook(channels[c].owner)
    /\ channels[c].st = "live"
    /\ channels' = [channels EXCEPT ![c].st = "closed", ![c].ev = {}]
    /\ TYOnClosed(channels[c].owner)
    /\ UNCHANGED <<rooms, home, messages, rm, room_participants, user_presence, typing_indicators, now,
                   hookKind, roomId, userName, rp, pr>>

TYChannelLeft(c) ==
    /\ c \in DOMAIN channels
    /\ IsTypingHook(channels[c].owner)
    /\ channels[c].st = "leaving"
    /\ channels' = [channels EXCEPT ![c].st = "closed"]
    /\ TYOnClosed(channels[c].owner)
    /\ UNCHANGED <<rooms, home, messages, rm, room_participants, user_presence, typing_indicators, now,
                   hookKind, roomId, userName, rp, pr>>

\* A reconnect timeout of the later revision fires: setupTypingSubscription().
TYReconnectFire(h) ==
    /\ hookKind[h] = "typing2"
    /\ ty[h].timers > 0
    /\ CanSubscribe
    /\ channels' = SetupTypingSubscription(channels, h)
    /\ ty' = [ty EXCEPT ![h] = [@ EXCEPT !.timers = @ - 1,
                                         !.channelRef = Len(channels) + 1]]
    /\ UNCHANGED <<rooms, home, messages, rm, room_participants, user_presence, typing_indicators, now,
                   hookKind, roomId, userName, rp, pr>>

\* The effect cleanup: the channel, the timeout, the intervals,
\* updateTypingStatus(false).
TYCleanup(h) ==
    /\ IsTypingHook(h)
    /\ ty[h].phase = "mounted"
    /\ CanSend(h)
    /\ channels' = RemoveChannel(channels, ty[h].channelRef)
    /\ ty' = [ty EXCEPT ![h] = [@ EXCEPT
                    !.phase = "cleaned",
                    !.channelRef = 0,
                    !.typingTimeoutRef = FALSE,
                    !.armedAt = 0,
                    !.lastCall = 0,
                    !.cleanupTimeoutRef = FALSE,
                    !.refreshRef = FALSE,
                    !.upserts = Append(@, TypingRow(FALSE, now))]]
    /\ UNCHANGED <<rooms, home, messages, rm, room_participants, user_presence, typing_indicators, now,
                   hookKind, roomId, userName, rp, pr>>

TYNext ==
    \/ \E h \in Hooks :
        \/ TYMount(h)
        \/ TYStartTyping(h)
        \/ TYStopTyping(h)
        \/ TYRender(h)
        \/ TYTimeout(h)
        \/ TYUpsertResp(h)
        \/ TYLoadResp(h)
        \/ TYRefresh(h)
        \/ TYReconnectFire(h)
        \/ TYCleanup(h)
    \/ \E c \in 1..MaxChannels :
        \/ TYFeedEvent(c)
        \/ TYFeedClosed(c)
        \/ TYChannelLeft(c)

----------------------------------------------------------------------------
(* useRealtimeMessages: the first revision ("messages") and the later one
   with the refresh interval and the created_at test ("messages2") *)

Contents == {"hi", "yo"}

\* How far the client clock that stamps a provisional entry runs ahead of
\* the store clock.
ClockOffsets == {0, MatchWindowMs}

RMIdle ==
    [phase |-> "unmounted", messages |-> <<>>, sends |-> {}, loads |-> {},
     channelRef |-> 0, nextTemp |-> 1, refreshRef |-> FALSE]

IsMessagesHook(h) == hookKind[h] \in {"messages", "messages2"}

\* An id: the store's (a uuid, here the row's number) or `temp-...`.
RowId(n) == [temp |-> FALSE, n |-> n]

TempId(n) == [temp |-> TRUE, n |-> n]

MessageRow(id, r, u, content, t) ==
    [id |-> id, room_id |-> r, user_name |-> u, content |-> content,
     created_at |-> t]

NoRow == MessageRow(RowId(0), Null, Null, Null, 0)

\* select('*').eq('room_id', r).order('created_at'): the store stamps rows
\* in insertion order.
SelectMessages(tbl, r) == SelectSeq(tbl, LAMBDA m : m.room_id = r)

\* Array.prototype.sort by created_at, which is stable.
InsertByCreatedAt(sorted, m) ==
    LET before == SelectSeq(sorted, LAMBDA x : x.created_at <= m.created_at)
        after == SelectSeq(sorted, LAMBDA x : x.created_at > m.created_at)
    IN  before \o <<m>> \o after

RECURSIVE SortByCreatedAt(_)
SortByCreatedAt(seq) ==
    IF seq = <<>> THEN <<>>
    ELSE InsertByCreatedAt(SortByCreatedAt(SubSeq(seq, 1, Len(seq) - 1)),
                           seq[Len(seq)])

Distance(a, b) == IF a >= b THEN a - b ELSE b - a

\* Which provisional entries the INSERT handler takes the new row to replace.
TempMatches(k, m, new) ==
    /\ m.id.temp
    /\ m.content = new.content
    /\ m.user_name = new.user_name
    /\ (k = "messages2" =>
            Distance(m.created_at, new.created_at) < MatchWindowMs)

\* The postgres_changes INSERT handler: the updater passed to setMessages.
OnInsert(k, prev, new) ==
    LET filtered == SelectSeq(prev, LAMBDA m : ~TempMatches(k, m, new))
    IN  IF \E i \in 1..Len(filtered) : filtered[i].id = new.id
        THEN prev
        ELSE SortByCreatedAt(Append(filtered, new))

\* prev.map(msg => msg.id === tempId ? data : msg)
ReplaceTemp(prev, n, data) ==
    [i \in 1..Len(prev) |-> IF prev[i].id = TempId(n) THEN data ELSE prev[i]]

\* prev.filter(msg => msg.id !== tempId)
RemoveTemp(prev, n) == SelectSeq(prev, LAMBDA m : m.id /= TempId(n))

\* The effect body: reset, loadMessages(); the later revision subscribes and
\* starts its refresh interval at once, the first subscribes after the load.
RMMount(h) ==
    /\ IsMessagesHook(h)
    /\ rm[h].phase = "unmounted"
    /\ IF hookKind[h] = "messages2"
       THEN /\ CanSubscribe
            /\ channels' = Append(channels, Channel(h, "messages", roomId[h]))
            /\ rm' = [rm EXCEPT ![h] = [@ EXCEPT
                        !.phase = "mounted",
                        !.messages = <<>>,
                        !.loads = @ \cup {[stage |-> "select", data |-> <<>>,
                                           init |-> TRUE]},
                        !.channelRef = Len(channels) + 1,
                        !.refreshRef = TRUE]]
       ELSE /\ channels' = channels
            /\ rm' = [rm EXCEPT ![h] = [@ EXCEPT
                        !.phase = "mounted",
                        !.messages = <<>>,
                        !.loads = @ \cup {[stage |-> "select", data |-> <<>>,
                                           init |-> TRUE]}]]
    /\ UNCHANGED <<rooms, home, room_participants, user_presence, typing_indicators, now,
                   hookKind, roomId, userName, rp, pr, ty, messages>>

\* The store runs the select of a loadMessages call.
RMLoadSelect(h) ==
    /\ \E l \in rm[h].loads :
        /\ l.stage = "select"
        /\ rm' = [rm EXCEPT ![h].loads = (@ \ {l}) \cup
                    {[l EXCEPT !.stage = "resp",
                               !.data = SelectMessages(messages, roomId[h])]}]
    /\ UNCHANGED <<rooms, home, room_participants, user_presence, typing_indicators, now,
                   hookKind, roomId, userName, channels, rp, pr, ty, messages>>

\* loadMessages after its await: setMessages(data); in the first revision
\* the load of the effect is followed by setupRealtimeSubscription(), which
\* returns at once when channelRef is set.
RMLoadResp(h) ==
    /\ \E l \in rm[h].loads :
        /\ l.stage = "resp"
        /\ IF l.init /\ hookKind[h] = "messages" /\ rm[h].channelRef = 0
           THEN /\ CanSubscribe
                /\ channels' = Append(channels, Channel(h, "messages", roomId[h]))
                /\ rm' = [rm EXCEPT ![h] = [@ EXCEPT
                            !.loads = @ \ {l},
                            !.messages = l.data,
                            !.channelRef = Len(channels) + 1]]
           ELSE /\ channels' = channels
                /\ rm' = [rm EXCEPT ![h] = [@ EXCEPT
                            !.loads = @ \ {l},
                            !.messages = l.data]]
    /\ UNCHANGED <<rooms, home, room_participants, user_presence, typing_indicators, now,
                   hookKind, roomId, userName, rp, pr, ty, messages>>

\* The refresh interval of the later revision: loadMessages().
RMRefresh(h) ==
    /\ rm[h].refreshRef
    /\ Cardinality(rm[h].loads) < MaxLoads
    /\ rm' = [rm EXCEPT ![h].loads =
                @ \cup {[stage |-> "select", data |-> <<>>, init |-> FALSE]}]
    /\ UNCHANGED <<rooms, home, room_participants, user_presence, typing_indicators, now,
                   hookKind, roomId, userName, channels, rp, pr, ty, messages>>

\* sendMessage up to its await: the provisional entry, stamped by the client
\* clock, is appended and the insert is sent.
RMSendMessage(h) ==
    /\ IsMessagesHook(h)
    /\ rm[h].phase = "mounted"
    /\ rm[h].nextTemp <= MaxSends
    /\ \E content \in Contents, off \in ClockOffsets :
        rm' = [rm EXCEPT ![h] = [@ EXCEPT
                !.messages = Append(@, MessageRow(TempId(rm[h].nextTemp),
                                roomId[h], userName[h], content, now + off)),
                !.sends = @ \cup {[temp |-> rm[h].nextTemp, content |-> content,
                                   applied |-> FALSE, row |-> NoRow]},
                !.nextTemp = @ + 1]]
    /\ UNCHANGED <<rooms, home, room_participants, user_presence, typing_indicators, now,
                   hookKind, roomId, userName, channels, rp, pr, ty, messages>>

\* The store runs the insert: the row gets its id and created_at, and the
\* INSERT is published to the channels of the room.
RMInsertApplied(h) ==
    /\ \E s \in rm[h].sends :
        /\ ~s.applied
        /\ LET row == MessageRow(RowId(Len(messages) + 1), roomId[h],
                                 userName[h], s.content, now)
           IN  /\ messages' = Append(messages, row)
               /\ channels' = NotifyWith(channels, "messages", roomId[h], row)
               /\ rm' = [rm EXCEPT ![h].sends = (@ \ {s}) \cup
                            {[s EXCEPT !.applied = TRUE, !.row = row]}]
    /\ UNCHANGED <<rooms, home, room_participants, user_presence, typing_indicators, now,
                   hookKind, roomId, userName, rp, pr, ty>>

\* sendMessage after its await, with data: the provisional entry is mapped
\* to the row.
RMSendResp(h) ==
    /\ \E s \in rm[h].sends :
        /\ s.applied
        /\ rm' = [rm EXCEPT ![h] = [@ EXCEPT
                    !.sends = @ \ {s},
                    !.messages = ReplaceTemp(@, s.temp, s.row)]]
    /\ UNCHANGED <<rooms, home, room_participants, user_presence, typing_indicators, now,
                   hookKind, roomId, userName, channels, rp, pr, ty, messages>>

\* sendMessage after its await, with an error (the insert was not applied):
\* the catch filters the provisional entry out.
RMSendFail(h) ==
    /\ \E s \in rm[h].sends :
        /\ ~s.applied
        /\ rm' = [rm EXCEPT ![h] = [@ EXCEPT
                    !.sends = @ \ {s},
                    !.messages = RemoveTemp(@, s.temp)]]
    /\ UNCHANGED <<rooms, home, room_participants, user_presence, typing_indicators, now,
                   hookKind, roomId, userName, channels, rp, pr, ty, messages>>

\* The postgres_changes INSERT handler runs on a published row.
RMFeedEvent(c) ==
    /\ c \in DOMAIN channels
    /\ IsMessagesHook(channels[c].owner)
    /\ channels[c].st = "live"
    /\ \E e \in channels[c].ev :
        LET h == channels[c].owner
        IN  /\ channels' = [channels EXCEPT ![c].ev = @ \ {e}]
            /\ rm' = [rm EXCEPT ![h].messages = OnInsert(hookKind[h], @, e)]
    /\ UNCHANGED <<rooms, home, room_participants, user_presence, typing_indicators, now,
                   hookKind, roomId, userName, rp, pr, ty, messages>>

\* The effect cleanup: timers cleared, the channel removed.
RMCleanup(h) ==
    /\ IsMessagesHook(h)
    /\ rm[h].phase = "mounted"
    /\ channels' = RemoveChannel(channels, rm[h].channelRef)
    /\ rm' = [rm EXCEPT ![h] = [@ EXCEPT !.phase = "cleaned",
                                         !.channelRef = 0,
                                         !.refreshRef = FALSE]]
    /\ UNCHANGED <<rooms, home, room_participants, user_presence, typing_indicators, now,
                   hookKind, roomId, userName, rp, pr, ty, messages>>

----------------------------------------------------------------------------
(* Two tabs of one user in one room *)

EmptyStore ==
    /\ room_participants = [k \in Rooms \X Users |-> 0]
    /\ user_presence = [u \in {} |-> PresenceRow(FALSE, 0, Null)]
    /\ typing_indicators = [k \in {} |-> 0]
    /\ messages = <<>>
    /\ now = 0
    /\ channels = <<>>

Init ==
    /\ EmptyStore
    /\ hookKind = [h \in Hooks |-> "participants"]
    /\ roomId = [h \in Hooks |-> "r1"]
    /\ userName = [h \in Hooks |-> "alice"]
    /\ rp = [h \in Hooks |-> RPIdle]
    /\ pr = [h \in Hooks |-> PRIdle]
    /\ ty = [h \in Hooks |-> TYIdle]
    /\ rm = [h \in Hooks |-> RMIdle]
    /\ rooms = RoomsFor(room_participants)
    /\ home = HomeIdle

\* The tabs mount, join, load, beat and leave; the feed delivers nothing and
\* drops nothing here (SpecOne has the feed).
Next ==
    \E h \in Hooks :
        \/ RPMount(h)
        \/ RPJoinSelectResp(h)
        \/ RPJoinInsertResp(h)
        \/ RPJoinPresenceResp(h)
        \/ RPPresenceResp(h)
        \/ RPLoadEmbedResp(h)
        \/ RPLoadParticipantsResp(h)
        \/ RPLoadPresenceResp(h)
        \/ RPHeartbeat(h)
        \/ RPCleanup(h)
        \/ RPLeaveDeleteResp(h)
        \/ RPLeavePresenceResp(h)

Spec == Init /\ [][Next]_vars

----------------------------------------------------------------------------
(* One hook instance of any kind, with the feed dropping channels *)

HookKinds == {"participants", "presence", "typing", "typing2"}

InitOne ==
    /\ EmptyStore
    /\ \E k \in HookKinds :
        hookKind = [h \in Hooks |-> IF h = "h1" THEN k ELSE "none"]
    /\ roomId = [h \in Hooks |-> "r1"]
    /\ userName = [h \in Hooks |-> "alice"]
    /\ rp = [h \in Hooks |-> RPIdle]
    /\ pr = [h \in Hooks |-> PRIdle]
    /\ ty = [h \in Hooks |-> TYIdle]
    /\ rm = [h \in Hooks |-> RMIdle]
    /\ rooms = RoomsFor(room_participants)
    /\ home = HomeIdle

NextOne == RPNext \/ PRNext \/ TYNext

SpecOne == InitOne /\ [][NextOne]_vars

----------------------------------------------------------------------------
(* Membership *)

Rows(h) == room_participants[Key(roomId[h], userName[h])]

JoinStep(h) ==
    RPJoinSelectResp(h) \/ RPJoinInsertResp(h) \/ RPJoinPresenceResp(h)

\* C1: there is never more than one room_participants row for a (room, user),
\* whatever the tabs do, and a step of joinRoom taken while the row of its
\* (room, user) exists leaves exactly that one row.
C1_OneRowPerMember ==
    /\ [](\A k \in Rooms \X Users : room_participants[k] <= 1)
    /\ [][\A h \in Hooks : (JoinStep(h) /\ Rows(h) = 1) => Rows(h)' = 1]_vars

\* Both tabs of the user have joined the room and the room holds one row.
C1_Witness ==
    \A h \in Hooks : rp[h].isJoinedRef /\ rp[h].phase = "mounted" /\ Rows(h) = 1

\* Nothing the instance started is still under way.
RPQuiet(h) ==
    /\ rp[h].initPc = "done"
    /\ rp[h].upserts = {}
    /\ rp[h].loads = {}

Offline(u) ==
    /\ u \in DOMAIN user_presence
    /\ ~user_presence[u].is_online
    /\ user_presence[u].current_room_id = Null

\* C2: once leaveRoom of an instance has run and all its store operations
\* have completed, the row of its (room, user) is gone and the user's presence
\* is offline with no room (no other instance of the user was ever mounted).
C2_LeftMeansGone ==
    \A h \in Hooks :
        (/\ rp[h].leavePc = "done"
         /\ RPQuiet(h)
         /\ \A g \in Hooks \ {h} : rp[g].phase = "unmounted")
        => (Rows(h) = 0 /\ Offline(userName[h]))

\* C7: after its cleanup an instance issues no membership insert, issues no
\* presence upsert with is_online = true and creates no channel.
C7_LeftIsTerminal ==
    [][\A h \in Hooks :
        rp[h].phase = "cleaned" =>
            /\ rp[h].initPc /= "join_insert" => rp'[h].initPc /= "join_insert"
            /\ \A q \in rp'[h].upserts \ rp[h].upserts : ~q.row.is_online
            /\ \A c \in (DOMAIN channels') \ (DOMAIN channels) :
                    channels'[c].owner /= h]_vars

----------------------------------------------------------------------------
(* Subscriptions and timers *)

Feeds == {"room_participants", "user_presence", "typing_indicators"}

Phase(h) ==
    IF hookKind[h] = "participants" THEN rp[h].phase
    ELSE IF hookKind[h] = "presence" THEN pr[h].phase
    ELSE IF IsTypingHook(h) THEN ty[h].phase
    ELSE "unmounted"

\* A reconnect timer of the instance is pending.
ReconnectPending(h) ==
    IF hookKind[h] = "participants"
    THEN rp[h].reconnectTimeoutRef \/ rp[h].strayTimers > 0
    ELSE IF hookKind[h] = "presence" THEN pr[h].timers > 0
    ELSE IF IsTypingHook(h) THEN ty[h].timers > 0
    ELSE FALSE

\* C5: an instance never holds two live channels on the same table.
C5_OneLiveSubscription ==
    \A h \in Hooks : \A f \in Feeds : Cardinality(LiveChannels(h, f)) <= 1

\* After its cleanup an instance holds a live channel again and a further
\* reconnect timer is pending.
C5_Witness ==
    \E h \in Hooks :
        /\ Phase(h) = "cleaned"
        /\ ReconnectPending(h)
        /\ \E f \in Feeds : LiveChannels(h, f) /= {}

TimerStep(h) ==
    \/ RPReconnectFire(h) \/ RPHeartbeat(h)
    \/ PRReconnectFire(h) \/ PRHeartbeat(h) \/ PRRefresh(h) \/ PRSweep(h)
    \/ TYReconnectFire(h) \/ TYTimeout(h) \/ TYRefresh(h)

\* C6: after the cleanup of an instance none of its timer callbacks runs.
C6_NoTimerAfterCleanup ==
    [][\A h \in Hooks : Phase(h) = "cleaned" => ~TimerStep(h)]_vars

\* The instance subscribed to the table and holds no live channel on it.
Dropped(h, f) ==
    /\ \E c \in DOMAIN channels : channels[c].owner = h /\ channels[c].feed = f
    /\ LiveChannels(h, f) = {}

\* C9: a mounted instance whose channel on a table was closed holds a live
\* channel on that table again later (or is cleaned up, or the channels of
\* the exploration are used up).
C9_Resubscribes ==
    \A h \in Hooks : \A f \in Feeds :
        (Dropped(h, f) /\ Phase(h) = "mounted")
            ~> (LiveChannels(h, f) /= {} \/ Phase(h) /= "mounted" \/ ~CanSetup)

\* C10: a typing upsert with is_typing = true is issued only from idle, so
\* that there is one of them between two returns to idle.
C10_OneUpsertPerBurst ==
    [][\A h \in Hooks :
        (/\ Len(ty'[h].upserts) > Len(ty[h].upserts)
         /\ ty'[h].upserts[Len(ty'[h].upserts)].is_typing)
        => ~ty[h].isTyping]_vars

\* C4: whoever a load lists as online in the room has a room_participants
\* row of the room when the list is computed.
C4_OnlineAreMembers ==
    [][\A h \in Hooks :
        /\ pr'[h].loads < pr[h].loads =>
            \A u \in pr'[h].onlineUsers :
                room_participants[Key(roomId[h], u)] >= 1
        /\ (\E l \in rp[h].loads : l.stage = "presence" /\ l \notin rp'[h].loads) =>
            \A i \in 1..Len(rp'[h].participants) :
                rp'[h].participants[i].is_online =>
                    room_participants[Key(roomId[h],
                        rp'[h].participants[i].user_name)] >= 1]_vars

\* The timers the instances arm do fire, the store answers and the client
\* reports the CLOSED of a removed channel; the feed drops channels, and the
\* user mounts, types and unmounts, when they do.
FairOne ==
    /\ SpecOne
    /\ \A h \in Hooks :
        /\ WF_vars(RPReconnectFire(h))
        /\ WF_vars(RPHeartbeat(h))
        /\ WF_vars(RPJoinSelectResp(h))
        /\ WF_vars(RPJoinInsertResp(h))
        /\ WF_vars(RPJoinPresenceResp(h))
        /\ WF_vars(RPPresenceResp(h))
        /\ WF_vars(RPLoadEmbedResp(h))
        /\ WF_vars(RPLoadParticipantsResp(h))
        /\ WF_vars(RPLoadPresenceResp(h))
        /\ WF_vars(PRReconnectFire(h))
        /\ WF_vars(PRHeartbeat(h))
        /\ WF_vars(PRRefresh(h))
        /\ WF_vars(PRPresenceResp(h))
        /\ WF_vars(PRLoadResp(h))
        /\ WF_vars(TYReconnectFire(h))
        /\ WF_vars(TYRefresh(h))
        /\ WF_vars(TYLoadResp(h))
        /\ WF_vars(TYUpsertResp(h))
    /\ \A c \in 1..MaxChannels :
        /\ WF_vars(RPChannelLeft(c))
        /\ WF_vars(PRChannelLeft(c))
        /\ WF_vars(TYChannelLeft(c))

----------------------------------------------------------------------------
(* The clock *)

\* Time passes, one heartbeat period at a time.
Tick ==
    /\ now < MaxTicks * HeartbeatMs
    /\ now' = now + HeartbeatMs
    /\ UNCHANGED <<rooms, home, messages, rm, room_participants, user_presence, typing_indicators,
                   hookKind, roomId, userName, channels, rp, pr, ty>>

----------------------------------------------------------------------------
(* loadParticipants over any membership and any presence table *)

\* The presence rows another session may have left behind for a user.
SeenRows ==
    {PresenceRow(o, s, r) : o \in BOOLEAN, s \in {0, HeartbeatMs},
                            r \in Rooms \cup {Null}}

Others == {"alice", "carol"}

\* bob opens r1; alice and carol are members of r1 or not, and each has any
\* presence row or none.
InitLoad ==
    /\ \E m \in SUBSET Others :
        room_participants =
            [k \in Rooms \X Users |-> IF k[1] = "r1" /\ k[2] \in m THEN 1 ELSE 0]
    /\ \E d \in SUBSET Others : \E f \in [Others -> SeenRows] :
        user_presence = [u \in d |-> f[u]]
    /\ typing_indicators = [k \in {} |-> 0]
    /\ messages = <<>>
    /\ now = HeartbeatMs
    /\ channels = <<>>
    /\ hookKind = [h \in Hooks |-> IF h = "h1" THEN "participants" ELSE "none"]
    /\ roomId = [h \in Hooks |-> "r1"]
    /\ userName = [h \in Hooks |-> "bob"]
    /\ rp = [h \in Hooks |-> RPIdle]
    /\ pr = [h \in Hooks |-> PRIdle]
    /\ ty = [h \in Hooks |-> TYIdle]
    /\ rm = [h \in Hooks |-> RMIdle]
    /\ rooms = RoomsFor(room_participants)
    /\ home = HomeIdle

NextLoad ==
    \/ Tick
    \/ \E h \in Hooks :
        \/ RPMount(h)
        \/ RPJoinSelectResp(h)
        \/ RPJoinInsertResp(h)
        \/ RPJoinPresenceResp(h)
        \/ RPLoadEmbedResp(h)
        \/ RPLoadParticipantsResp(h)
        \/ RPLoadPresenceResp(h)

SpecLoad == InitLoad /\ [][NextLoad]_vars

Members(r) == {u \in Users : room_participants[Key(r, u)] >= 1}

\* The presence row of u says: online, in room r, seen inside the window.
LivePresence(u, r) ==
    /\ u \in DOMAIN user_presence
    /\ user_presence[u].is_online
    /\ user_presence[u].current_room_id = r
    /\ now - user_presence[u].last_seen < OnlineWindowMs

LoadCompletes(h) ==
    \E l \in rp[h].loads : l.stage = "presence" /\ l \notin rp'[h].loads

\* C3: the list a load produces has one entry per member of the room, no
\* other entry, and an entry is online exactly when the member's presence
\* row is online, in this room and inside the online window.
C3_LoadPartitions ==
    [][\A h \in Hooks : LoadCompletes(h) =>
        LET P == rp'[h].participants
        IN  /\ Len(P) = Cardinality(Members(roomId[h]))
            /\ {P[i].user_name : i \in 1..Len(P)} = Members(roomId[h])
            /\ \A i \in 1..Len(P) :
                P[i].is_online <=> LivePresence(P[i].user_name, roomId[h])]_vars

\* A loaded list with an online member, a member without presence row and a
\* member whose fresh presence row names another room.
C3_Witness ==
    \E h \in Hooks :
        LET P == rp[h].participants
        IN  /\ rp[h].initPc = "done"
            /\ \E i \in 1..Len(P) : P[i].is_online
            /\ \E i \in 1..Len(P) :
                ~P[i].is_online /\ P[i].user_name \notin DOMAIN user_presence
            /\ \E i \in 1..Len(P) :
                /\ ~P[i].is_online
                /\ P[i].user_name \in DOMAIN user_presence
                /\ user_presence[P[i].user_name].is_online
                /\ user_presence[P[i].user_name].current_room_id = "r2"
                /\ now - user_presence[P[i].user_name].last_seen < OnlineWindowMs

----------------------------------------------------------------------------
(* A member that stopped heartbeating *)

\* alice joined r1 at 0 and her tab is gone without leaving; bob observes r1
\* with useRoomParticipants or with usePresence.
InitAway ==
    /\ room_participants =
        [k \in Rooms \X Users |-> IF k = Key("r1", "alice") THEN 1 ELSE 0]
    /\ user_presence = [u \in {"alice"} |-> PresenceRow(TRUE, 0, "r1")]
    /\ typing_indicators = [k \in {} |-> 0]
    /\ messages = <<>>
    /\ now = 0
    /\ channels = <<>>
    /\ \E k \in {"participants", "presence"} :
        hookKind = [h \in Hooks |-> IF h = "h1" THEN k ELSE "none"]
    /\ roomId = [h \in Hooks |-> "r1"]
    /\ userName = [h \in Hooks |-> "bob"]
    /\ rp = [h \in Hooks |-> RPIdle]
    /\ pr = [h \in Hooks |-> PRIdle]
    /\ ty = [h \in Hooks |-> TYIdle]
    /\ rm = [h \in Hooks |-> RMIdle]
    /\ rooms = RoomsFor(room_participants)
    /\ home = HomeIdle

\* What the store and the timers of the observer do by themselves.
AwayStep(h) ==
    \/ RPJoinSelectResp(h)
    \/ RPJoinInsertResp(h)
    \/ RPJoinPresenceResp(h)
    \/ RPPresenceResp(h)
    \/ RPLoadEmbedResp(h)
    \/ RPLoadParticipantsResp(h)
    \/ RPLoadPresenceResp(h)
    \/ RPHeartbeat(h)
    \/ PRPresenceResp(h)
    \/ PRLoadResp(h)
    \/ PRHeartbeat(h)
    \/ PRRefresh(h)
    \/ PRSweep(h)
    \/ PRSweepResp(h)

\* The observer mounts and stays; the feed may deliver its notifications.
NextAway ==
    \/ Tick
    \/ \E h \in Hooks : RPMount(h) \/ PRMount(h) \/ AwayStep(h)
    \/ \E c \in 1..MaxChannels : RPFeedEvent(c) \/ PRFeedEvent(c)

\* Time passes, requests are answered and timers fire; nothing obliges the
\* feed to deliver.
SpecAway ==
    /\ InitAway
    /\ [][NextAway]_vars
    /\ WF_vars(Tick)
    /\ \A h \in Hooks :
        /\ WF_vars(RPJoinSelectResp(h))
        /\ WF_vars(RPJoinInsertResp(h))
        /\ WF_vars(RPJoinPresenceResp(h))
        /\ WF_vars(RPPresenceResp(h))
        /\ WF_vars(RPLoadEmbedResp(h))
        /\ WF_vars(RPLoadParticipantsResp(h))
        /\ WF_vars(RPLoadPresenceResp(h))
        /\ WF_vars(RPHeartbeat(h))
        /\ WF_vars(PRPresenceResp(h))
        /\ WF_vars(PRLoadResp(h))
        /\ WF_vars(PRHeartbeat(h))
        /\ WF_vars(PRRefresh(h))
        /\ WF_vars(PRSweep(h))
        /\ WF_vars(PRSweepResp(h))

\* The view of instance h shows u as online.
ListedOnline(h, u) ==
    IF hookKind[h] = "participants"
    THEN \E i \in 1..Len(rp[h].participants) :
            rp[h].participants[i] = Entry(u, TRUE)
    ELSE hookKind[h] = "presence" /\ u \in pr[h].onlineUsers

Fresh(u) ==
    /\ u \in DOMAIN user_presence
    /\ user_presence[u].is_online
    /\ now - user_presence[u].last_seen < OnlineWindowMs

Recomputes(h) == LoadCompletes(h) \/ pr'[h].loads < pr[h].loads

\* C8: a recomputation lists a member of the room whose heartbeat is inside
\* the online window as online, and a mounted observer stops listing alice
\* once her last heartbeat is a full online window old.
C8_StaleMeansAway ==
    /\ [][\A h \in Hooks :
            (Recomputes(h) /\ Fresh("alice")
             /\ user_presence["alice"].current_room_id = roomId[h])
            => ListedOnline(h, "alice")']_vars
    /\ \A h \in Hooks :
        (Phase(h) = "mounted" /\ ~Fresh("alice")) ~> ~ListedOnline(h, "alice")

----------------------------------------------------------------------------
(* Typing: alice types in r1, bob watches r1 *)

\* Time passes, one refresh period of the typing hook at a time; the store
\* answers an upsert within the period it was sent in.
TickTyping ==
    /\ now < MaxTypingTicks * TypingRefreshMs
    /\ \A h \in Hooks : ty[h].upserts = <<>>
    /\ now' = now + TypingRefreshMs
    /\ UNCHANGED <<rooms, home, messages, rm, room_participants, user_presence, typing_indicators,
                   hookKind, roomId, userName, channels, rp, pr, ty>>

\* Both tabs run the same revision of useTypingIndicator.
InitTyping ==
    /\ EmptyStore
    /\ \E k \in {"typing", "typing2"} : hookKind = [h \in Hooks |-> k]
    /\ roomId = [h \in Hooks |-> "r1"]
    /\ userName = [h \in Hooks |-> IF h = "h1" THEN "alice" ELSE "bob"]
    /\ rp = [h \in Hooks |-> RPIdle]
    /\ pr = [h \in Hooks |-> PRIdle]
    /\ ty = [h \in Hooks |-> TYIdle]
    /\ rm = [h \in Hooks |-> RMIdle]
    /\ rooms = RoomsFor(room_participants)
    /\ home = HomeIdle

Typer == "h1"

Watcher == "h2"

\* The tabs stay open; alice types, React renders her tab, her timeout fires
\* and her upserts are answered; bob's tab loads on its interval and on the
\* notifications the feed delivers to it.
NextTyping ==
    \/ TickTyping
    \/ \E h \in Hooks : TYMount(h)
    \/ TYStartTyping(Typer)
    \/ TYStopTyping(Typer)
    \/ TYRender(Typer)
    \/ TYTimeout(Typer)
    \/ TYUpsertResp(Typer)
    \/ TYRefresh(Watcher)
    \/ TYLoadResp(Watcher)
    \/ \E c \in 1..MaxChannels :
        c \in DOMAIN channels /\ channels[c].owner = Watcher /\ TYFeedEvent(c)

\* Time passes, requests are answered, React renders and timers fire;
\* nothing obliges the user to type or the feed to deliver.
SpecTyping ==
    /\ InitTyping
    /\ [][NextTyping]_vars
    /\ WF_vars(TickTyping)
    /\ WF_vars(TYRender(Typer))
    /\ WF_vars(TYUpsertResp(Typer))
    /\ WF_vars(TYRefresh(Watcher))
    /\ WF_vars(TYLoadResp(Watcher))

\* The typing row of u in the room of instance h passes the filter of h.
TypingLive(u, h) ==
    /\ Key(roomId[h], u) \in DOMAIN typing_indicators
    /\ typing_indicators[Key(roomId[h], u)].is_typing
    /\ now - typing_indicators[Key(roomId[h], u)].last_typed < TypingWindow(h)

ListedTyping(h, u) == Includes(ty[h].typingUsers, u)

\* C11: while alice's typing row stays outside the typing window (or says
\* she does not type), bob's mounted tab comes to not list her, whether or
\* not the feed delivers anything to it.
C11_StaleTyperDropped ==
    (ty[Watcher].phase = "mounted" /\ ~TypingLive("alice", Watcher))
        ~> (~ListedTyping(Watcher, "alice") \/ TypingLive("alice", Watcher))

\* alice's row still says she types but is a window old, notifications to
\* bob's channel are undelivered, and bob's tab does not list her.
C11_Witness ==
    /\ ty[Watcher].phase = "mounted"
    /\ ty[Watcher].loads = 0
    /\ Key("r1", "alice") \in DOMAIN typing_indicators
    /\ typing_indicators[Key("r1", "alice")].is_typing
    /\ ~TypingLive("alice", Watcher)
    /\ channels[ty[Watcher].channelRef].ev /= {}
    /\ ~ListedTyping(Watcher, "alice")

----------------------------------------------------------------------------
(* The three staleness filters at the edges of their windows *)

WindowOf(k) ==
    IF k \in {"participants", "presence"} THEN OnlineWindowMs
    ELSE IF k = "typing" THEN TypingWindowMs ELSE TypingWindow2Ms

\* alice is a member of r1, online in r1 and typing in r1, with timestamps
\* `seen`; bob opens r1 with one of the hooks at a time that is within
\* MaxSkewMs of one of the windows after `seen`.
InitLive ==
    /\ \E seen \in {0, 1, HeartbeatMs} :
        /\ user_presence = [u \in {"alice"} |-> PresenceRow(TRUE, seen, "r1")]
        /\ typing_indicators =
            [k \in {Key("r1", "alice")} |-> TypingRow(TRUE, seen)]
        /\ \E w \in {WindowOf(k) : k \in HookKinds} :
           \E d \in (0 - MaxSkewMs)..MaxSkewMs : now = seen + w + d
    /\ room_participants =
        [k \in Rooms \X Users |-> IF k = Key("r1", "alice") THEN 1 ELSE 0]
    /\ messages = <<>>
    /\ channels = <<>>
    /\ \E k \in HookKinds :
        hookKind = [h \in Hooks |-> IF h = "h1" THEN k ELSE "none"]
    /\ roomId = [h \in Hooks |-> "r1"]
    /\ userName = [h \in Hooks |-> "bob"]
    /\ rp = [h \in Hooks |-> RPIdle]
    /\ pr = [h \in Hooks |-> PRIdle]
    /\ ty = [h \in Hooks |-> TYIdle]
    /\ rm = [h \in Hooks |-> RMIdle]
    /\ rooms = RoomsFor(room_participants)
    /\ home = HomeIdle

\* The hook mounts and its first load completes.
NextLive ==
    \E h \in Hooks :
        \/ RPMount(h)
        \/ RPJoinSelectResp(h)
        \/ RPJoinInsertResp(h)
        \/ RPJoinPresenceResp(h)
        \/ RPLoadEmbedResp(h)
        \/ RPLoadParticipantsResp(h)
        \/ RPLoadPresenceResp(h)
        \/ PRMount(h)
        \/ PRPresenceResp(h)
        \/ PRLoadResp(h)
        \/ TYMount(h)
        \/ TYLoadResp(h)

SpecLive == InitLive /\ [][NextLive]_vars

\* The view of instance h shows alice: online, or typing.
Shows(h) ==
    IF IsTypingHook(h) THEN ListedTyping(h, "alice") ELSE ListedOnline(h, "alice")

LoadEnds(h) ==
    \/ LoadCompletes(h)
    \/ pr'[h].loads < pr[h].loads
    \/ ty'[h].loads < ty[h].loads

\* The age of alice's row that the load of instance h filters on.
AgeFor(h) ==
    IF IsTypingHook(h)
    THEN now - typing_indicators[Key("r1", "alice")].last_typed
    ELSE now - user_presence["alice"].last_seen

----------------------------------------------------------------------------
(* The ways a tab ends *)

\* One tab of alice in r1: it mounts, beats, is hidden and shown again, and
\* ends by unmounting or by the page unloading.
NextExit ==
    \E h \in Hooks :
        \/ RPMount(h)
        \/ RPJoinSelectResp(h)
        \/ RPJoinInsertResp(h)
        \/ RPJoinPresenceResp(h)
        \/ RPPresenceResp(h)
        \/ RPLoadEmbedResp(h)
        \/ RPLoadParticipantsResp(h)
        \/ RPLoadPresenceResp(h)
        \/ RPHeartbeat(h)
        \/ RPHidden(h)
        \/ RPVisible(h)
        \/ RPBeforeUnload(h)
        \/ RPCleanup(h)
        \/ RPLeaveDeleteResp(h)
        \/ RPLeavePresenceResp(h)

InitExit ==
    /\ EmptyStore
    /\ hookKind = [h \in Hooks |-> IF h = "h1" THEN "participants" ELSE "none"]
    /\ roomId = [h \in Hooks |-> "r1"]
    /\ userName = [h \in Hooks |-> "alice"]
    /\ rp = [h \in Hooks |-> RPIdle]
    /\ pr = [h \in Hooks |-> PRIdle]
    /\ ty = [h \in Hooks |-> TYIdle]
    /\ rm = [h \in Hooks |-> RMIdle]
    /\ rooms = RoomsFor(room_participants)
    /\ home = HomeIdle

SpecExit == InitExit /\ [][NextExit]_vars

\* The tab of instance h has ended, or is hidden, and nothing it asked of the
\* store is outstanding.
Ended(h) ==
    /\ \/ rp[h].phase = "cleaned" /\ rp[h].leavePc = "done"
       \/ rp[h].phase = "closed"
       \/ rp[h].phase = "mounted" /\ rp[h].hidden
    /\ RPQuiet(h)

\* C13: when a tab has ended by unmount or by unload, or is hidden, and its
\* requests are through, its room_participants row is gone and its user's
\* presence row is offline with no room.
C13_EveryExitLeaves ==
    \A h \in Hooks : Ended(h) => (Rows(h) = 0 /\ Offline(userName[h]))

----------------------------------------------------------------------------
(* joinRoom in two tabs of one user, in either revision *)

InitJoin ==
    /\ EmptyStore
    /\ hookKind \in [Hooks -> {"participants", "participants5"}]
    /\ roomId = [h \in Hooks |-> "r1"]
    /\ userName = [h \in Hooks |-> "alice"]
    /\ rp = [h \in Hooks |-> RPIdle]
    /\ pr = [h \in Hooks |-> PRIdle]
    /\ ty = [h \in Hooks |-> TYIdle]
    /\ rm = [h \in Hooks |-> RMIdle]
    /\ rooms = RoomsFor(room_participants)
    /\ home = HomeIdle

NextJoin ==
    \E h \in Hooks :
        \/ RPMount(h)
        \/ RPJoinSelectResp(h)
        \/ RPJoinInsertResp(h)
        \/ RPJoinPresenceResp(h)
        \/ RPHeartbeat(h)
        \/ RPPresenceResp(h)

SpecJoin == InitJoin /\ [][NextJoin]_vars

\* joinRoom of instance h returns in this step.
JoinReturns(h) ==
    /\ rp[h].initPc \in {"join_select", "join_insert", "join_presence"}
    /\ rp'[h].initPc = "load"

\* C14: a joinRoom call returns only after its presence upsert
\* {is_online: true, current_room_id: roomId} was made.
C14_JoinUpsertsPresence ==
    [][\A h \in Hooks : JoinReturns(h) =>
        \E q \in rp[h].upserts \ rp'[h].upserts :
            /\ q.row.is_online
            /\ q.row.current_room_id = roomId[h]
            /\ user_presence'[userName[h]] = q.row]_vars

----------------------------------------------------------------------------
(* Where the displayed lists come from *)

\* C15: the lists an instance displays change only when one of its own
\* queries completes (or the effect resets the list); a notification of the
\* feed changes none of them.
C15_ListsComeFromQueries ==
    [][\A h \in Hooks :
        /\ ty'[h].typingUsers /= ty[h].typingUsers => ty'[h].loads < ty[h].loads
        /\ pr'[h].onlineUsers /= pr[h].onlineUsers => pr'[h].loads < pr[h].loads
        /\ rp'[h].participants /= rp[h].participants =>
            (LoadCompletes(h) \/ RPMount(h))]_vars

----------------------------------------------------------------------------
(* bob watches r1 while alice joins it *)

Joiner == "h1"

Observer == "h2"

InitView ==
    /\ EmptyStore
    /\ hookKind = [h \in Hooks |-> "participants"]
    /\ roomId = [h \in Hooks |-> "r1"]
    /\ userName = [h \in Hooks |-> IF h = Joiner THEN "alice" ELSE "bob"]
    /\ rp = [h \in Hooks |-> RPIdle]
    /\ pr = [h \in Hooks |-> PRIdle]
    /\ ty = [h \in Hooks |-> TYIdle]
    /\ rm = [h \in Hooks |-> RMIdle]
    /\ rooms = RoomsFor(room_participants)
    /\ home = HomeIdle

\* alice's tab mounts, joins and leaves; bob's tab mounts, joins, loads, subscribes
\* and reloads on the notifications the feed delivers to it.
NextView ==
    \/ \E h \in Hooks :
        \/ RPMount(h)
        \/ RPJoinSelectResp(h)
        \/ RPJoinInsertResp(h)
        \/ RPJoinPresenceResp(h)
    \/ RPCleanup(Joiner)
    \/ RPLeaveDeleteResp(Joiner)
    \/ RPLeavePresenceResp(Joiner)
    \/ RPLoadEmbedResp(Observer)
    \/ RPLoadParticipantsResp(Observer)
    \/ RPLoadPresenceResp(Observer)
    \/ \E c \in 1..MaxChannels :
        c \in DOMAIN channels /\ channels[c].owner = Observer /\ RPFeedEvent(c)

SpecView == InitView /\ [][NextView]_vars

\* Nothing is about to change the store, and bob's tab has nothing
\* outstanding: no request, no query, no undelivered notification.
Settled ==
    /\ rp[Joiner].initPc \in {"idle", "load"}
    /\ rp[Joiner].leavePc \in {"idle", "done"}
    /\ rp[Joiner].upserts = {}
    /\ RPQuiet(Observer)
    /\ \A c \in DOMAIN channels :
        (channels[c].owner = Observer /\ channels[c].st = "live")
            => channels[c].ev = {}

\* C16: when the store has stopped changing and bob's tab has nothing
\* outstanding, its list is the one the store's rows give.
C16_ViewConverges ==
    Settled =>
        rp[Observer].participants =
            Enhance(SelectParticipants(room_participants, "r1"),
                    user_presence, "r1", now)

----------------------------------------------------------------------------
(* One session switching from r1 to r2 *)

\* The effect run for the room the session leaves, and the one for the room
\* it enters: the same component, re-rendered with another roomId.
OldRun == "h1"

NewRun == "h2"

InitSwitch ==
    /\ EmptyStore
    /\ hookKind = [h \in Hooks |-> "participants"]
    /\ roomId = [h \in Hooks |-> IF h = OldRun THEN "r1" ELSE "r2"]
    /\ userName = [h \in Hooks |-> "alice"]
    /\ rp = [h \in Hooks |-> RPIdle]
    /\ pr = [h \in Hooks |-> PRIdle]
    /\ ty = [h \in Hooks |-> TYIdle]
    /\ rm = [h \in Hooks |-> RMIdle]
    /\ rooms = RoomsFor(room_participants)
    /\ home = HomeIdle

\* A response of the store to a request of effect run h.
RPResponse(h) ==
    \/ RPJoinSelectResp(h)
    \/ RPJoinInsertResp(h)
    \/ RPJoinPresenceResp(h)
    \/ RPLoadEmbedResp(h)
    \/ RPLoadParticipantsResp(h)
    \/ RPLoadPresenceResp(h)
    \/ RPLeaveDeleteResp(h)
    \/ RPLeavePresenceResp(h)

\* The session opens r1; on the change of roomId React runs the cleanup of
\* the old effect and then the new effect body in the same commit, so no
\* response is handled between the two.
NextSwitch ==
    \/ RPMount(OldRun)
    \/ rp[OldRun].phase = "mounted" /\ RPResponse(OldRun)
    \/ RPCleanup(OldRun)
    \/ rp[OldRun].phase = "cleaned" /\ RPMount(NewRun)
    \/ rp[NewRun].phase = "mounted" /\ (\E h \in Hooks : RPResponse(h))

SpecSwitch == InitSwitch /\ [][NextSwitch]_vars

\* The leave of r1 and the join of r2 have run and every store operation
\* they issued has completed. The old run had finished its start before the
\* switch: a start that ends after the cleanup subscribes again and leaves
\* channelRef set.
SwitchComplete ==
    /\ rp[OldRun].leavePc = "done"
    /\ RPQuiet(OldRun)
    /\ rp[OldRun].channelRef = 0
    /\ rp[NewRun].phase = "mounted"
    /\ rp[NewRun].initPc \in {"load", "done"}
    /\ rp[NewRun].upserts = {}

\* C17: once the operations of the leave of r1 and of the join of r2 have all
\* completed, in whatever order, the user's presence row is online in r2 and
\* no membership row of the user in r1 remains.
C17_SwitchEndsInNewRoom ==
    SwitchComplete =>
        /\ room_participants[Key("r1", "alice")] = 0
        /\ "alice" \in DOMAIN user_presence
        /\ user_presence["alice"].is_online
        /\ user_presence["alice"].current_room_id = "r2"

----------------------------------------------------------------------------
(* What a function of a hook does with an error of the store *)

\* Whether function f of a hook of kind k throws the error its request
\* resolved with (if (error) throw error); the others do not read it.
ThrowsOnError(k, f) ==
    \/ k = "presence" /\ f \in {"updatePresence", "loadOnlineUsers"}
    \/ k = "participants5"
          /\ f \in {"updatePresence", "joinRoom", "leaveRoom", "loadParticipants"}
    \/ k = "typing" /\ f = "loadTypingUsers"
    \/ k = "typing2" /\ f \in {"updateTypingStatus", "loadTypingUsers"}

\* The functions of a hook of kind k whose requests are made inside a try
\* block whose catch logs and returns.
CatchingFunctions(k) ==
    IF k \in {"participants", "participants5"}
    THEN {"updatePresence", "joinRoom", "leaveRoom", "loadParticipants"}
    ELSE IF k = "presence"
    THEN {"updatePresence", "loadOnlineUsers"}
    ELSE IF k \in {"typing", "typing2"}
    THEN {"updateTypingStatus", "loadTypingUsers"}
    ELSE {}

RejectsUncaught(k, f) == ThrowsOnError(k, f)

\* Whether the promise of f rejects when the store fails; no caller of these
\* functions handles a rejection.
Rejects(k, f) == ThrowsOnError(k, f) /\ f \notin CatchingFunctions(k)

----------------------------------------------------------------------------
(* joinRoom while the store is unavailable *)

\* joinRoom after its insert when the store could not be reached: the client
\* resolves the request with { error } and no row is written. The revision
\* that reads the error throws it into its catch, which logs it; the other
\* goes on to updatePresence(true).
RPJoinInsertFail(h) ==
    /\ rp[h].initPc = "join_insert"
    /\ IF InsertErrorThrows(h)
       THEN rp' = [rp EXCEPT ![h] = [@ EXCEPT
                    !.initPc = "load",
                    !.loads = @ \cup {Load("embed", <<>>, TRUE)},
                    !.unhandled = @ \/ Rejects(hookKind[h], "joinRoom")]]
       ELSE rp' = [rp EXCEPT ![h] = [@ EXCEPT
                    !.initPc = "join_presence",
                    !.upserts = @ \cup {PresenceRequest(h, TRUE, "join")}]]
    /\ UNCHANGED <<rooms, home, messages, rm, room_participants, user_presence, now, hookKind, roomId,
                   typing_indicators, pr, ty, userName, channels>>

\* One tab of alice in r1 that stays in the room: the store may be out of
\* reach when the insert of joinRoom arrives and answers everything after it.
NextOutage ==
    \/ Tick
    \/ \E h \in Hooks :
        \/ RPMount(h)
        \/ RPJoinSelectResp(h)
        \/ RPJoinInsertResp(h)
        \/ RPJoinInsertFail(h)
        \/ RPJoinPresenceResp(h)
        \/ RPPresenceResp(h)
        \/ RPLoadEmbedResp(h)
        \/ RPLoadParticipantsResp(h)
        \/ RPLoadPresenceResp(h)
        \/ RPHeartbeat(h)

\* Every timer fires and the store answers every request; whether the insert
\* fails is left open.
SpecOutage ==
    /\ InitExit
    /\ [][NextOutage]_vars
    /\ WF_vars(Tick)
    /\ \A h \in Hooks :
        /\ WF_vars(RPMount(h))
        /\ WF_vars(RPJoinSelectResp(h))
        /\ WF_vars(RPJoinInsertResp(h))
        /\ WF_vars(RPJoinPresenceResp(h))
        /\ WF_vars(RPPresenceResp(h))
        /\ WF_vars(RPLoadEmbedResp(h))
        /\ WF_vars(RPLoadParticipantsResp(h))
        /\ WF_vars(RPLoadPresenceResp(h))
        /\ WF_vars(RPHeartbeat(h))

\* The insert of joinRoom of instance h has been answered.
InsertAnswered(h) ==
    /\ rp[h].phase = "mounted"
    /\ rp[h].initPc \in {"join_presence", "load", "done"}

\* C18: when the insert of joinRoom failed for want of the store, the session
\* stays in the room and the store answers again, the row of its (room, user)
\* eventually exists.
C18_FailedJoinIsRetried ==
    \A h \in Hooks :
        (InsertAnswered(h) /\ Rows(h) = 0) ~> (Rows(h) = 1)

----------------------------------------------------------------------------
(* Every request may fail *)

\* joinRoom after its select when the store failed: data is null, so the
\* insert follows.
RPJoinSelectFail(h) ==
    /\ rp[h].initPc = "join_select"
    /\ rp' = [rp EXCEPT ![h] = [@ EXCEPT
                    !.initPc = "join_insert",
                    !.unhandled = @ \/ Rejects(hookKind[h], "joinRoom")]]
    /\ UNCHANGED <<rooms, home, messages, rm, room_participants, user_presence, now, hookKind, roomId,
                   typing_indicators, pr, ty, userName, channels>>

\* The upsert joinRoom awaits, failed: updatePresence returns all the same,
\* isJoinedRef is set and initialize goes on.
RPJoinPresenceFail(h) ==
    /\ rp[h].initPc = "join_presence"
    /\ CanLoad(h)
    /\ \E q \in rp[h].upserts :
        /\ q.from = "join"
        /\ rp' = [rp EXCEPT ![h] = [@ EXCEPT
                        !.upserts = @ \ {q},
                        !.isJoinedRef = TRUE,
                        !.initPc = "load",
                        !.loads = @ \cup {Load("embed", <<>>, TRUE)},
                        !.unhandled = @ \/ Rejects(hookKind[h], "updatePresence")]]
    /\ UNCHANGED <<rooms, home, messages, rm, room_participants, user_presence, now, hookKind, roomId,
                   typing_indicators, pr, ty, userName, channels>>

\* A heartbeat upsert, failed.
RPPresenceFail(h) ==
    /\ \E q \in rp[h].upserts :
        /\ q.from = "none"
        /\ rp' = [rp EXCEPT ![h] = [@ EXCEPT
                        !.upserts = @ \ {q},
                        !.unhandled = @ \/ Rejects(hookKind[h], "updatePresence")]]
    /\ UNCHANGED <<rooms, home, messages, rm, room_participants, user_presence, now, hookKind, roomId,
                   typing_indicators, pr, ty, userName, channels>>

\* loadParticipants when a select of its fallback failed: data is null. With
\* no participants the presence select follows over an empty list; with no
\* presence every member is mapped to is_online = false.
RPLoadFail(h) ==
    /\ hookKind[h] = "participants"
    /\ \E l \in rp[h].loads :
        \/ /\ l.stage = "participants"
           /\ rp' = [rp EXCEPT ![h] = [@ EXCEPT
                        !.loads = (@ \ {l}) \cup {Load("presence", <<>>, l.init)},
                        !.unhandled = @ \/ Rejects(hookKind[h], "loadParticipants")]]
           /\ channels' = channels
        \/ /\ l.stage = "presence"
           /\ AfterLoad(h, l, Enhance(l.rows, <<>>, roomId[h], now))
    /\ UNCHANGED <<rooms, home, messages, rm, room_participants, user_presence, now, hookKind, roomId,
                   typing_indicators, pr, ty, userName>>

\* leaveRoom after its delete, failed: the error is not read and
\* updatePresence(false) follows.
RPLeaveDeleteFail(h) ==
    /\ hookKind[h] = "participants"
    /\ rp[h].leavePc = "delete"
    /\ rp' = [rp EXCEPT ![h] = [@ EXCEPT
                    !.leavePc = "presence",
                    !.upserts = @ \cup {PresenceRequest(h, FALSE, "leave")},
                    !.unhandled = @ \/ Rejects(hookKind[h], "leaveRoom")]]
    /\ UNCHANGED <<rooms, home, messages, rm, room_participants, user_presence, now, hookKind, roomId,
                   typing_indicators, pr, ty, userName, channels>>

\* The upsert leaveRoom awaits, failed.
RPLeavePresenceFail(h) ==
    /\ rp[h].leavePc = "presence"
    /\ \E q \in rp[h].upserts :
        /\ q.from = "leave"
        /\ rp' = [rp EXCEPT ![h] = [@ EXCEPT
                        !.upserts = @ \ {q},
                        !.isJoinedRef = FALSE,
                        !.leavePc = "done",
                        !.unhandled = @ \/ Rejects(hookKind[h], "updatePresence")]]
    /\ UNCHANGED <<rooms, home, messages, rm, room_participants, user_presence, now, hookKind, roomId,
                   typing_indicators, pr, ty, userName, channels>>

\* updatePresence of usePresence, failed: the error is thrown into the catch,
\* which calls setConnectionStatus('disconnected').
PRPresenceFail(h) ==
    /\ \E q \in pr[h].upserts :
        pr' = [pr EXCEPT ![h] = [@ EXCEPT
                    !.upserts = @ \ {q},
                    !.connectionStatus = "disconnected",
                    !.unhandled = @ \/ Rejects(hookKind[h], "updatePresence")]]
    /\ UNCHANGED <<rooms, home, messages, rm, room_participants, user_presence, typing_indicators, now,
                   hookKind, roomId, userName, channels, rp, ty>>

\* loadOnlineUsers, failed: onlineUsers is left as it was.
PRLoadFail(h) ==
    /\ pr[h].loads > 0
    /\ pr' = [pr EXCEPT ![h] = [@ EXCEPT
                    !.loads = @ - 1,
                    !.unhandled = @ \/ Rejects(hookKind[h], "loadOnlineUsers")]]
    /\ UNCHANGED <<rooms, home, messages, rm, room_participants, user_presence, typing_indicators, now,
                   hookKind, roomId, userName, channels, rp, ty>>

\* updateTypingStatus, failed.
TYUpsertFail(h) ==
    /\ IsTypingHook(h)
    /\ \E i \in 1..Len(ty[h].upserts) :
        ty' = [ty EXCEPT ![h] = [@ EXCEPT
                    !.upserts = RemoveAt(@, i),
                    !.unhandled = @ \/ Rejects(hookKind[h], "updateTypingStatus")]]
    /\ UNCHANGED <<rooms, home, messages, rm, room_participants, user_presence, typing_indicators, now,
                   hookKind, roomId, userName, channels, rp, pr>>

InitFail ==
    /\ EmptyStore
    /\ \E k \in HookKinds \cup {"participants5"} :
        hookKind = [h \in Hooks |-> IF h = "h1" THEN k ELSE "none"]
    /\ roomId = [h \in Hooks |-> "r1"]
    /\ userName = [h \in Hooks |-> "alice"]
    /\ rp = [h \in Hooks |-> RPIdle]
    /\ pr = [h \in Hooks |-> PRIdle]
    /\ ty = [h \in Hooks |-> TYIdle]
    /\ rm = [h \in Hooks |-> RMIdle]
    /\ rooms = RoomsFor(room_participants)
    /\ home = HomeIdle

\* One hook instance of any kind; the store answers each request or fails it,
\* and the feed may close the presence channel.
NextFail ==
    \/ \E h \in Hooks :
        \/ RPMount(h)
        \/ RPJoinSelectResp(h)
        \/ RPJoinSelectFail(h)
        \/ RPJoinInsertResp(h)
        \/ RPJoinInsertFail(h)
        \/ RPJoinPresenceResp(h)
        \/ RPJoinPresenceFail(h)
        \/ RPHeartbeat(h)
        \/ RPPresenceResp(h)
        \/ RPPresenceFail(h)
        \/ RPLoadEmbedResp(h)
        \/ RPLoadParticipantsResp(h)
        \/ RPLoadPresenceResp(h)
        \/ RPLoadFail(h)
        \/ RPCleanup(h)
        \/ RPLeaveDeleteResp(h)
        \/ RPLeaveDeleteFail(h)
        \/ RPLeavePresenceResp(h)
        \/ RPLeavePresenceFail(h)
        \/ PRMount(h)
        \/ PRHeartbeat(h)
        \/ PRPresenceResp(h)
        \/ PRPresenceFail(h)
        \/ PRLoadResp(h)
        \/ PRLoadFail(h)
        \/ PRCleanup(h)
        \/ TYMount(h)
        \/ TYStartTyping(h)
        \/ TYRender(h)
        \/ TYStopTyping(h)
        \/ TYUpsertResp(h)
        \/ TYUpsertFail(h)
    \/ \E c \in 1..MaxChannels :
        \/ PRFeedClosed(c)
        \/ PRChannelLeft(c)

SpecFail == InitFail /\ [][NextFail]_vars

\* C19: no failure of the store leaves a hook as an exception; in usePresence
\* a failed presence upsert sets connectionStatus to 'disconnected', an
\* applied one sets it to 'connected', and a channel reported CLOSED or
\* CHANNEL_ERROR sets it to 'disconnected'.
C19_FailuresStayInside ==
    /\ [](\A h \in Hooks :
            ~rp[h].unhandled /\ ~pr[h].unhandled /\ ~ty[h].unhandled)
    /\ [][\A h \in Hooks :
            /\ PRPresenceFail(h) => pr'[h].connectionStatus = "disconnected"
            /\ PRPresenceResp(h) => pr'[h].connectionStatus = "connected"]_vars
    /\ [][\A c \in 1..MaxChannels :
            (PRFeedClosed(c) \/ PRChannelLeft(c))
                => pr'[channels[c].owner].connectionStatus = "disconnected"]_vars

\* The first presence upsert of a mounted usePresence failed: nothing was
\* written, the channel is live and the status is 'disconnected'.
C19_Witness ==
    /\ hookKind["h1"] = "presence"
    /\ pr["h1"].phase = "mounted"
    /\ pr["h1"].upserts = {}
    /\ "alice" \notin DOMAIN user_presence
    /\ pr["h1"].connectionStatus = "disconnected"
    /\ channels[pr["h1"].channelRef].st = "live"

----------------------------------------------------------------------------
(* What typingUsers holds *)

NoDuplicates(seq) == \A i, j \in 1..Len(seq) : seq[i] = seq[j] => i = j

\* C20: typingUsers never holds the instance's own user and never holds a
\* user twice, and whenever the list changes every user in the new list has a
\* typing record of the room with is_typing = true and last_typed inside the
\* typing window at that moment.
C20_TypingListSound ==
    /\ [](\A h \in Hooks :
            /\ ~Includes(ty[h].typingUsers, userName[h])
            /\ NoDuplicates(ty[h].typingUsers))
    /\ [][\A h \in Hooks :
            ty'[h].typingUsers /= ty[h].typingUsers
                => \A u \in Users :
                        Includes(ty'[h].typingUsers, u) => TypingLive(u, h)']_vars

----------------------------------------------------------------------------
(* stopTyping *)

\* The upserts instance h issued in this step.
IssuedTyping(h) ==
    SubSeq(ty'[h].upserts, Len(ty[h].upserts) + 1, Len(ty'[h].upserts))

\* C21: stopTyping writes only when the session is typing, and then it sets
\* isTyping to false, issues one upsert with is_typing = false and cancels
\* the inactivity timeout; the timeout writes only while the session is typing.
C21_StopTypingOnce ==
    [][\A h \in Hooks :
        /\ TYStopTyping(h) =>
            /\ ty[h].isTyping
            /\ ~ty'[h].isTyping
            /\ ~ty'[h].typingTimeoutRef
            /\ Len(IssuedTyping(h)) = 1
            /\ ~IssuedTyping(h)[1].is_typing
        /\ TYTimeout(h) => ty[h].isTyping]_vars

----------------------------------------------------------------------------
(* Visibility changes *)

\* usePresence, visibilitychange with document.hidden: updatePresence(false).
PRHidden(h) ==
    /\ hookKind[h] = "presence"
    /\ pr[h].phase = "mounted"
    /\ ~pr[h].hidden
    /\ Cardinality(pr[h].upserts) < MaxInFlight
    /\ pr' = [pr EXCEPT ![h] = [@ EXCEPT
                    !.hidden = TRUE,
                    !.upserts = @ \cup {PresenceRequest(h, FALSE, "none")}]]
    /\ UNCHANGED <<rooms, home, messages, rm, room_participants, user_presence, typing_indicators, now,
                   hookKind, roomId, userName, channels, rp, ty>>

\* usePresence, visibilitychange back to visible: updatePresence(true),
\* loadOnlineUsers().
PRVisible(h) ==
    /\ hookKind[h] = "presence"
    /\ pr[h].phase = "mounted"
    /\ pr[h].hidden
    /\ Cardinality(pr[h].upserts) < MaxInFlight
    /\ pr[h].loads < MaxLoads
    /\ pr' = [pr EXCEPT ![h] = [@ EXCEPT
                    !.hidden = FALSE,
                    !.upserts = @ \cup {PresenceRequest(h, TRUE, "none")},
                    !.loads = @ + 1]]
    /\ UNCHANGED <<rooms, home, messages, rm, room_participants, user_presence, typing_indicators, now,
                   hookKind, roomId, userName, channels, rp, ty>>

InitVisible ==
    /\ EmptyStore
    /\ \E k \in {"participants", "presence"} :
        hookKind = [h \in Hooks |-> IF h = "h1" THEN k ELSE "none"]
    /\ roomId = [h \in Hooks |-> "r1"]
    /\ userName = [h \in Hooks |-> "alice"]
    /\ rp = [h \in Hooks |-> RPIdle]
    /\ pr = [h \in Hooks |-> PRIdle]
    /\ ty = [h \in Hooks |-> TYIdle]
    /\ rm = [h \in Hooks |-> RMIdle]
    /\ rooms = RoomsFor(room_participants)
    /\ home = HomeIdle

\* A heartbeat period passes; the store has answered what was asked of it
\* during the period.
TickAnswered ==
    /\ \A h \in Hooks :
        /\ rp[h].upserts = {} /\ rp[h].loads = {}
        /\ pr[h].upserts = {} /\ pr[h].loads = 0
    /\ Tick

\* One tab of alice in r1 with either hook: time passes, the heartbeat beats,
\* and the page is hidden and shown again, when it is.
NextVisible ==
    \/ TickAnswered
    \/ \E h \in Hooks :
        \/ RPMount(h)
        \/ RPJoinSelectResp(h)
        \/ RPJoinInsertResp(h)
        \/ RPJoinPresenceResp(h)
        \/ RPPresenceResp(h)
        \/ RPLoadEmbedResp(h)
        \/ RPLoadParticipantsResp(h)
        \/ RPLoadPresenceResp(h)
        \/ RPHeartbeat(h)
        \/ RPHidden(h)
        \/ RPVisible(h)
        \/ PRMount(h)
        \/ PRPresenceResp(h)
        \/ PRLoadResp(h)
        \/ PRHeartbeat(h)
        \/ PRHidden(h)
        \/ PRVisible(h)

SpecVisible == InitVisible /\ [][NextVisible]_vars

\* The page of instance h goes out of sight, or comes back, in this step.
BecomesHidden(h) ==
    \/ rp'[h].hidden /\ ~rp[h].hidden
    \/ pr'[h].hidden /\ ~pr[h].hidden

BecomesVisible(h) ==
    \/ rp[h].hidden /\ ~rp'[h].hidden
    \/ pr[h].hidden /\ ~pr'[h].hidden

\* The upserts instance h has under way after this step.
UnderWay(h) == rp'[h].upserts \cup pr'[h].upserts

\* C22: the step in which the page becomes hidden issues an upsert with
\* is_online = false and no room, stamped with the time of the step; the
\* step in which it becomes visible issues one with is_online = true and the
\* room and starts a load of the view. Neither waits for the heartbeat.
C22_VisibilityWritesAtOnce ==
    [][\A h \in Hooks :
        /\ BecomesHidden(h) =>
            \E q \in UnderWay(h) :
                /\ ~q.row.is_online
                /\ q.row.current_room_id = Null
                /\ q.row.last_seen = now
        /\ BecomesVisible(h) =>
            /\ \E q \in UnderWay(h) :
                /\ q.row.is_online
                /\ q.row.current_room_id = roomId[h]
                /\ q.row.last_seen = now
            /\ \/ Load("embed", <<>>, FALSE) \in rp'[h].loads
               \/ pr'[h].loads = pr[h].loads + 1]_vars

\* The page of a joined tab was hidden, which the store has recorded, and
\* came back: the upsert and the load of the return are under way.
C22_Witness ==
    /\ rp["h1"].phase = "mounted"
    /\ rp["h1"].initPc = "done"
    /\ ~rp["h1"].hidden
    /\ Load("embed", <<>>, FALSE) \in rp["h1"].loads
    /\ \E q \in rp["h1"].upserts : q.row.is_online /\ q.row.last_seen = now
    /\ "alice" \in DOMAIN user_presence
    /\ ~user_presence["alice"].is_online

----------------------------------------------------------------------------
(* The network goes away and comes back *)

\* The browser loses the network (window 'offline') under a tab whose hook
\* has started and waits for nothing: no hook listens for the event.
RPOffline(h) ==
    /\ hookKind[h] = "participants"
    /\ rp[h].phase = "mounted"
    /\ RPQuiet(h)
    /\ ~rp[h].offline
    /\ rp' = [rp EXCEPT ![h].offline = TRUE]
    /\ UNCHANGED <<rooms, home, messages, rm, room_participants, user_presence, now, hookKind, roomId,
                   typing_indicators, pr, ty, userName, channels>>

\* The network is back (window 'online'): useRoomParticipants registers
\* listeners for visibilitychange and beforeunload only, so nothing runs.
RPOnline(h) ==
    /\ hookKind[h] = "participants"
    /\ rp[h].offline
    /\ rp' = [rp EXCEPT ![h].offline = FALSE]
    /\ UNCHANGED <<rooms, home, messages, rm, room_participants, user_presence, now, hookKind, roomId,
                   typing_indicators, pr, ty, userName, channels>>

PROffline(h) ==
    /\ hookKind[h] = "presence"
    /\ pr[h].phase = "mounted"
    /\ pr[h].upserts = {}
    /\ pr[h].loads = 0
    /\ ~pr[h].offline
    /\ pr' = [pr EXCEPT ![h].offline = TRUE]
    /\ UNCHANGED <<rooms, home, messages, rm, room_participants, user_presence, typing_indicators, now,
                   hookKind, roomId, userName, channels, rp, ty>>

\* usePresence has no listener for 'online' either.
PROnline(h) ==
    /\ hookKind[h] = "presence"
    /\ pr[h].offline
    /\ pr' = [pr EXCEPT ![h].offline = FALSE]
    /\ UNCHANGED <<rooms, home, messages, rm, room_participants, user_presence, typing_indicators, now,
                   hookKind, roomId, userName, channels, rp, ty>>

\* One tab of alice in r1 with either hook. While the network is away the
\* heartbeat still fires and its requests fail; otherwise they are applied.
NextNet ==
    \/ TickAnswered
    \/ \E h \in Hooks :
        \/ RPMount(h)
        \/ RPJoinSelectResp(h)
        \/ RPJoinInsertResp(h)
        \/ RPJoinPresenceResp(h)
        \/ RPLoadEmbedResp(h)
        \/ RPLoadParticipantsResp(h)
        \/ RPLoadPresenceResp(h)
        \/ RPHeartbeat(h)
        \/ ~rp[h].offline /\ RPPresenceResp(h)
        \/ rp[h].offline /\ RPPresenceFail(h)
        \/ RPOffline(h)
        \/ RPOnline(h)
        \/ PRMount(h)
        \/ PRLoadResp(h)
        \/ PRHeartbeat(h)
        \/ ~pr[h].offline /\ PRPresenceResp(h)
        \/ pr[h].offline /\ PRPresenceFail(h)
        \/ PROffline(h)
        \/ PROnline(h)

SpecNet == InitVisible /\ [][NextNet]_vars

\* The network of instance h's tab comes back in this step.
BecomesOnline(h) ==
    \/ rp[h].offline /\ ~rp'[h].offline
    \/ pr[h].offline /\ ~pr'[h].offline

\* C23: the step in which the network comes back issues a presence upsert
\* with is_online = true and the room, stamped with the time of the step.
C23_BeatsOnReconnect ==
    [][\A h \in Hooks :
        BecomesOnline(h) =>
            \E q \in UnderWay(h) :
                /\ q.row.is_online
                /\ q.row.current_room_id = roomId[h]
                /\ q.row.last_seen = now]_vars

----------------------------------------------------------------------------
(* Two sessions of one user in two rooms *)

InitTwo ==
    /\ EmptyStore
    /\ hookKind = [h \in Hooks |-> "participants"]
    /\ roomId = [h \in Hooks |-> IF h = "h1" THEN "r1" ELSE "r2"]
    /\ userName = [h \in Hooks |-> "alice"]
    /\ rp = [h \in Hooks |-> RPIdle]
    /\ pr = [h \in Hooks |-> PRIdle]
    /\ ty = [h \in Hooks |-> TYIdle]
    /\ rm = [h \in Hooks |-> RMIdle]
    /\ rooms = RoomsFor(room_participants)
    /\ home = HomeIdle

\* Both tabs mount, join, load, beat and leave, each in its room, while
\* time passes.
NextTwo == TickAnswered \/ Next

SpecTwo == InitTwo /\ [][NextTwo]_vars

\* The upserts of instance h the store answered in this step.
Answered(h) == rp[h].upserts \ rp'[h].upserts

\* C24: the store holds one presence row per user, and when it applies an
\* upsert of a session the user's row is that upsert's row, field for field,
\* whatever the other session of the user wrote or has under way.
C24_LastWriteWins ==
    [][\A h \in Hooks : \A q \in Answered(h) :
        /\ userName[h] \in DOMAIN user_presence'
        /\ user_presence'[userName[h]] = q.row]_vars

\* The tab in r2 went offline and the store applied that last, while the tab
\* in r1 has an upsert under way that says online in r1.
C24_Witness ==
    /\ \A h \in Hooks : rp[h].initPc = "done"
    /\ rp["h2"].upserts = {}
    /\ rp["h2"].leavePc = "done"
    /\ \E q \in rp["h1"].upserts :
        q.row.is_online /\ q.row.current_room_id = "r1"
    /\ "alice" \in DOMAIN user_presence
    /\ ~user_presence["alice"].is_online
    /\ user_presence["alice"].current_room_id = Null
    /\ user_presence["alice"].last_seen = HeartbeatMs

----------------------------------------------------------------------------
(* realtimeState.channels *)

\* The hooks that end their subscription set-up with
\* realtimeState.channels.set(channelName, channelRef.current).
Registers(k) == k \in {"participants", "participants5", "typing"}

\* Channel c is in realtimeState.channels. An entry is set when the channel
\* is created and no code deletes one; a later set under the same name
\* (same hook, table, room and millisecond) is the only thing that replaces
\* it, so the last channel an instance created on a table is in the map.
InRegistry(c) ==
    /\ Registers(hookKind[channels[c].owner])
    /\ \A d \in DOMAIN channels :
        (channels[d].owner = channels[c].owner /\ channels[d].feed = channels[c].feed)
            => d <= c

\* C25: the map holds no channel that removeChannel was called on, and no
\* channel of an instance after that instance's teardown.
C25_RegistryFollowsChannels ==
    \A c \in DOMAIN channels :
        InRegistry(c) =>
            /\ channels[c].st /= "leaving"
            /\ Phase(channels[c].owner) /= "cleaned"

----------------------------------------------------------------------------
(* One tab sending messages *)

InitSend ==
    /\ EmptyStore
    /\ \E k \in {"messages", "messages2"} :
        hookKind = [h \in Hooks |-> IF h = "h1" THEN k ELSE "none"]
    /\ roomId = [h \in Hooks |-> "r1"]
    /\ userName = [h \in Hooks |-> "alice"]
    /\ rp = [h \in Hooks |-> RPIdle]
    /\ pr = [h \in Hooks |-> PRIdle]
    /\ ty = [h \in Hooks |-> TYIdle]
    /\ rm = [h \in Hooks |-> RMIdle]
    /\ rooms = RoomsFor(room_participants)
    /\ home = HomeIdle

\* alice's tab loads, sends and receives; each insert is applied or fails.
NextSend ==
    \/ \E h \in Hooks :
        \/ RMMount(h)
        \/ RMLoadSelect(h)
        \/ RMLoadResp(h)
        \/ RMRefresh(h)
        \/ RMSendMessage(h)
        \/ RMInsertApplied(h)
        \/ RMSendResp(h)
        \/ RMSendFail(h)
    \/ \E c \in 1..MaxChannels : RMFeedEvent(c)

SpecSend == InitSend /\ [][NextSend]_vars

\* How many entries of a list carry an id.
CountId(seq, id) == Cardinality({i \in 1..Len(seq) : seq[i].id = id})

\* The sendMessage calls of instance h that return in this step.
Finished(h) ==
    {s \in rm[h].sends : \A t \in rm'[h].sends : t.temp /= s.temp}

\* C26: sendMessage puts its provisional entry into the list at once; when
\* the call returns no entry has the provisional id, and the list holds the
\* stored row exactly once if the insert succeeded, and is the old list
\* without the provisional entry if it failed.
C26_TempReplacedOrRemoved ==
    [][\A h \in Hooks :
        /\ rm'[h].nextTemp > rm[h].nextTemp
            => CountId(rm'[h].messages, TempId(rm[h].nextTemp)) = 1
        /\ \A s \in Finished(h) :
            /\ CountId(rm'[h].messages, TempId(s.temp)) = 0
            /\ s.applied => CountId(rm'[h].messages, s.row.id) = 1
            /\ ~s.applied =>
                    rm'[h].messages = RemoveTemp(rm[h].messages, s.temp)]_vars

\* C28: the message list of an instance never holds two entries with one id,
\* however the insert's response, the published INSERT and the reloads
\* interleave and however far the client clock is from the store's.
C28_UniqueIds ==
    \A h \in Hooks : \A i, j \in 1..Len(rm[h].messages) :
        rm[h].messages[i].id = rm[h].messages[j].id => i = j

----------------------------------------------------------------------------
(* Membership of an active session *)

\* joinRoom of the instance has completed and its cleanup has not started.
ActiveSession(h) ==
    /\ IsParticipantsHook(h)
    /\ rp[h].phase = "mounted"
    /\ rp[h].isJoinedRef
    /\ rp[h].initPc \notin {"idle", "join_select", "join_insert", "join_presence"}

\* C27: while a session of a user in a room is active, the store holds the
\* membership row of that user in that room, also when another session of
\* the same user in the same room leaves.
C27_ActiveSessionHasRow ==
    \A h \in Hooks : ActiveSession(h) => Rows(h) >= 1

----------------------------------------------------------------------------
(* The inactivity timeout of the typing state *)

\* Time passes one key interval at a time; a timeout that is due fires
\* before the clock moves on.
TickKey ==
    /\ now < MaxKeyTicks * KeyIntervalMs
    /\ \A h \in Hooks :
        ty[h].typingTimeoutRef => now < ty[h].armedAt + TypingTimeoutOf(h)
    /\ now' = now + KeyIntervalMs
    /\ UNCHANGED <<rooms, home, messages, rm, room_participants, user_presence, typing_indicators,
                   hookKind, roomId, userName, channels, rp, pr, ty>>

\* The timeout fires once its delay has passed since it was armed.
TYTimeoutDue(h) ==
    /\ ty[h].typingTimeoutRef
    /\ now >= ty[h].armedAt + TypingTimeoutOf(h)
    /\ TYTimeout(h)

\* One tab with the typing hook of either revision; alice is in r1.
InitKeys ==
    /\ EmptyStore
    /\ \E k \in {"typing", "typing2"} :
        hookKind = [h \in Hooks |-> IF h = Typer THEN k ELSE "none"]
    /\ roomId = [h \in Hooks |-> "r1"]
    /\ userName = [h \in Hooks |-> "alice"]
    /\ rp = [h \in Hooks |-> RPIdle]
    /\ pr = [h \in Hooks |-> PRIdle]
    /\ ty = [h \in Hooks |-> TYIdle]
    /\ rm = [h \in Hooks |-> RMIdle]
    /\ rooms = RoomsFor(room_participants)
    /\ home = HomeIdle

\* alice changes the input field (startTyping is called, past its guard or
\* not), empties it (stopTyping), React renders, the timeout fires when due,
\* the upserts are answered.
NextKeys ==
    \/ TickKey
    \/ TYMount(Typer)
    \/ TYStartTyping(Typer)
    \/ TYStartTypingEarly(Typer)
    \/ TYStopTyping(Typer)
    \/ TYRender(Typer)
    \/ TYTimeoutDue(Typer)
    \/ TYUpsertResp(Typer)

SpecKeys == InitKeys /\ [][NextKeys]_vars

\* C29: the inactivity timeout fires, and writes its is_typing = false
\* upsert, only when a full timeout delay has passed since the latest call
\* of startTyping.
C29_StopAfterFullWindow ==
    [][\A h \in Hooks : TYTimeoutDue(h) =>
        now - ty[h].lastCall >= TypingTimeoutOf(h)]_vars

----------------------------------------------------------------------------
(* The typing state across a re-run of the effect *)

\* A request of an earlier effect run, with the room and user it closed over.
StaleUpsert(h, row) == [room |-> roomId[h], user |-> userName[h], row |-> row]

\* roomId changes while the component stays mounted: React renders, runs the
\* cleanup of the old effect (channel removed, timeout and intervals cleared,
\* updateTypingStatus(false) for the old room) and then the effect body for
\* the new room. The state isTyping is not touched by either.
TYRerun(h) ==
    /\ IsTypingHook(h)
    /\ ty[h].phase = "mounted"
    /\ ty[h].loads = 0
    /\ CanSend(h)
    /\ CanSubscribe
    /\ \E r \in Rooms \ {roomId[h]} :
        /\ roomId' = [roomId EXCEPT ![h] = r]
        /\ channels' = Append(RemoveChannel(channels, ty[h].channelRef),
                              Channel(h, "typing_indicators", r))
    /\ ty' = [ty EXCEPT ![h] = [@ EXCEPT
                    !.isTypingSeen = ty[h].isTyping,
                    !.typingTimeoutRef = FALSE,
                    !.armedAt = 0,
                    !.lastCall = 0,
                    !.stale = [i \in 1..Len(ty[h].upserts) |->
                                    StaleUpsert(h, ty[h].upserts[i])]
                              \o <<StaleUpsert(h, TypingRow(FALSE, now))>>,
                    !.upserts = <<>>,
                    !.loads = 1,
                    !.channelRef = Len(channels) + 1,
                    !.cleanupTimeoutRef = TRUE,
                    !.refreshRef = (hookKind[h] = "typing2")]]
    /\ UNCHANGED <<rooms, home, messages, rm, room_participants, user_presence, typing_indicators, now,
                   hookKind, userName, rp, pr>>

\* updateTypingStatus of an earlier effect run after its upsert.
TYStaleUpsertResp(h) ==
    /\ IsTypingHook(h)
    /\ ty[h].stale /= <<>>
    /\ LET q == ty[h].stale[1]
       IN  /\ typing_indicators' = UpsertTyping(typing_indicators, q.room,
                                                q.user, q.row)
           /\ channels' = NotifyWith(channels, "typing_indicators", q.room,
                                     [user_name |-> q.user,
                                      is_typing |-> q.row.is_typing])
    /\ ty' = [ty EXCEPT ![h].stale = Tail(@)]
    /\ UNCHANGED <<rooms, home, messages, rm, room_participants, user_presence, now, hookKind, roomId,
                   userName, rp, pr>>

\* alice types and moves between the rooms with one mounted ChatRoom. The
\* clock stands still here: the timeout may fire at any moment, and a call of
\* startTyping that its guard stops changes nothing.
NextRerun ==
    \/ TYMount(Typer)
    \/ TYStartTyping(Typer)
    \/ TYStopTyping(Typer)
    \/ TYRender(Typer)
    \/ TYTimeout(Typer)
    \/ TYUpsertResp(Typer)
    \/ TYLoadResp(Typer)
    \/ ty[Typer].stale = <<>> /\ TYRerun(Typer)
    \/ TYStaleUpsertResp(Typer)

SpecRerun == InitKeys /\ [][NextRerun]_vars

\* C30: whenever the isTyping flag of a mounted instance is true, its
\* inactivity timeout is armed, also after the effect was cleaned up and
\* run again for another room while the session was typing.
C30_TypingHasTimer ==
    \A h \in Hooks :
        ty[h].phase = "mounted" /\ ty[h].isTyping => ty[h].typingTimeoutRef

----------------------------------------------------------------------------
(* The messages subscription and the life of the effect *)

\* The tab sends and receives as in SpecSend and may be closed at any moment,
\* also while the initial loadMessages is awaiting the store.
NextUnmount ==
    \/ NextSend
    \/ \E h \in Hooks : RMCleanup(h)

SpecUnmount == InitSend /\ [][NextUnmount]_vars

\* The live channels an instance of useRealtimeMessages holds on messages.
LiveMessageChannels(h) ==
    {c \in DOMAIN channels :
        /\ channels[c].owner = h
        /\ channels[c].feed = "messages"
        /\ channels[c].st = "live"}

\* C31: a live messages subscription of an instance belongs to a mounted
\* effect and is filtered on the instance's current roomId; after the
\* cleanup the instance holds none, also when the cleanup ran while the
\* initial loadMessages was in flight.
C31_SubscriptionFollowsEffect ==
    \A h \in Hooks : \A c \in LiveMessageChannels(h) :
        /\ rm[h].phase = "mounted"
        /\ channels[c].room = roomId[h]

----------------------------------------------------------------------------
(* Reloads that fail *)

\* loadTypingUsers whose select fails: the error is thrown and caught, the
\* list is not set.
TYLoadFail(h) ==
    /\ IsTypingHook(h)
    /\ ty[h].loads > 0
    /\ ty' = [ty EXCEPT ![h].loads = @ - 1]
    /\ UNCHANGED <<rooms, home, messages, rm, room_participants, user_presence, typing_indicators, now,
                   hookKind, roomId, userName, channels, rp, pr>>

\* One tab of alice in r1 with one of the three hooks.
InitReload ==
    /\ EmptyStore
    /\ \E k \in {"participants", "presence", "typing"} :
        hookKind = [h \in Hooks |-> IF h = "h1" THEN k ELSE "none"]
    /\ roomId = [h \in Hooks |-> "r1"]
    /\ userName = [h \in Hooks |-> "alice"]
    /\ rp = [h \in Hooks |-> RPIdle]
    /\ pr = [h \in Hooks |-> PRIdle]
    /\ ty = [h \in Hooks |-> TYIdle]
    /\ rm = [h \in Hooks |-> RMIdle]
    /\ rooms = RoomsFor(room_participants)
    /\ home = HomeIdle

\* The tab stays open: it joins, beats, and reloads on its intervals and on
\* the notifications of its channels; any select of a load may fail.
NextReload ==
    \/ \E h \in Hooks :
        \/ RPMount(h)
        \/ RPJoinSelectResp(h)
        \/ RPJoinInsertResp(h)
        \/ RPJoinPresenceResp(h)
        \/ RPHeartbeat(h)
        \/ RPPresenceResp(h)
        \/ RPLoadEmbedResp(h)
        \/ RPLoadParticipantsResp(h)
        \/ RPLoadPresenceResp(h)
        \/ RPLoadFail(h)
        \/ PRMount(h)
        \/ PRHeartbeat(h)
        \/ PRPresenceResp(h)
        \/ PRRefresh(h)
        \/ PRLoadResp(h)
        \/ PRLoadFail(h)
        \/ TYMount(h)
        \/ TYRefresh(h)
        \/ TYLoadResp(h)
        \/ TYLoadFail(h)
    \/ \E c \in 1..MaxChannels :
        \/ RPFeedEvent(c)
        \/ PRFeedEvent(c)

SpecReload == InitReload /\ [][NextReload]_vars

\* C32: a load whose store query fails leaves the displayed list of its hook
\* as it was: the participants of useRoomParticipants, the online users of
\* usePresence, the typing users of useTypingIndicator.
C32_FailedLoadKeepsList ==
    [][\A h \in Hooks :
        /\ RPLoadFail(h) => rp'[h].participants = rp[h].participants
        /\ PRLoadFail(h) => pr'[h].onlineUsers = pr[h].onlineUsers
        /\ TYLoadFail(h) => ty'[h].typingUsers = ty[h].typingUsers]_vars

----------------------------------------------------------------------------
(* A hidden tab *)

\* The page of the instance is hidden before and after the step.
StaysHidden(h) ==
    \/ rp[h].hidden /\ rp'[h].hidden
    \/ pr[h].hidden /\ pr'[h].hidden

\* The presence upserts the instance issues in the step.
Issued(h) == (rp'[h].upserts \ rp[h].upserts) \cup (pr'[h].upserts \ pr[h].upserts)

\* C33: between a transition to hidden and the next transition to visible
\* the session issues no presence upsert with is_online = true.
C33_HiddenTabStaysOffline ==
    [][\A h \in Hooks : StaysHidden(h) =>
        \A q \in Issued(h) : ~q.row.is_online]_vars

----------------------------------------------------------------------------
(* connectionStatus of usePresence *)

\* The channel channelRef points to is subscribed.
PresenceSubscribed(h) ==
    /\ pr[h].channelRef \in DOMAIN channels
    /\ channels[pr[h].channelRef].st = "live"

\* C34: connectionStatus of a mounted usePresence is 'connected' only while
\* its presence subscription is subscribed; after CLOSED or CHANNEL_ERROR it
\* differs from 'connected' until a resubscription.
C34_ConnectedMeansSubscribed ==
    \A h \in Hooks :
        /\ hookKind[h] = "presence"
        /\ pr[h].phase = "mounted"
        /\ pr[h].connectionStatus = "connected"
        => PresenceSubscribed(h)

----------------------------------------------------------------------------
(* The cleanup interval of usePresence *)

\* alice and carol are online in the store with a last_seen one millisecond
\* before, at, or one millisecond after the cutoff of a cleanup made now;
\* bob opens r1 with usePresence.
InitSweep ==
    /\ room_participants = [k \in Rooms \X Users |-> 0]
    /\ \E ta, tc \in 0..(2 * MaxSkewMs) : \E ra, rc \in Rooms :
        user_presence = [u \in {"alice", "carol"} |->
            IF u = "alice" THEN PresenceRow(TRUE, ta, ra)
            ELSE PresenceRow(TRUE, tc, rc)]
    /\ typing_indicators = [k \in {} |-> 0]
    /\ messages = <<>>
    /\ now = CleanupAgeMs + MaxSkewMs
    /\ channels = <<>>
    /\ hookKind = [h \in Hooks |-> IF h = "h1" THEN "presence" ELSE "none"]
    /\ roomId = [h \in Hooks |-> "r1"]
    /\ userName = [h \in Hooks |-> "bob"]
    /\ rp = [h \in Hooks |-> RPIdle]
    /\ pr = [h \in Hooks |-> PRIdle]
    /\ ty = [h \in Hooks |-> TYIdle]
    /\ rm = [h \in Hooks |-> RMIdle]
    /\ rooms = RoomsFor(room_participants)
    /\ home = HomeIdle

\* bob's tab stays open: its intervals fire and its requests are answered.
NextSweep ==
    \/ \E h \in Hooks :
        \/ PRMount(h)
        \/ PRPresenceResp(h)
        \/ PRLoadResp(h)
        \/ PRHeartbeat(h)
        \/ PRRefresh(h)
        \/ PRSweep(h)
        \/ PRSweepResp(h)
    \/ \E c \in 1..MaxChannels : PRFeedEvent(c)

SpecSweep == InitSweep /\ [][NextSweep]_vars

\* The cutoffs of the cleanup runs whose update the store applies in the step.
Swept(h) == pr[h].sweeps \ pr'[h].sweeps

\* C36: a run of the cleanup sets is_online to false on exactly the rows
\* whose last_seen is before its cutoff, changes nothing else of any row,
\* and goes on to a loadOnlineUsers().
C36_SweepTouchesOnlyStaleRows ==
    [][\A h \in Hooks : \A cutoff \in Swept(h) :
        /\ DOMAIN user_presence' = DOMAIN user_presence
        /\ \A u \in DOMAIN user_presence :
            /\ user_presence'[u].last_seen = user_presence[u].last_seen
            /\ user_presence'[u].current_room_id = user_presence[u].current_room_id
            /\ user_presence'[u].is_online =
                (user_presence[u].is_online /\ user_presence[u].last_seen >= cutoff)
        /\ pr'[h].loads = pr[h].loads + 1]_vars

\* A cleanup has been applied: one row older than the cutoff is offline with
\* its room kept, one row exactly at the cutoff is still online.
C36_Witness ==
    /\ pr["h1"].phase = "mounted"
    /\ pr["h1"].sweeps = {}
    /\ ~user_presence["alice"].is_online
    /\ user_presence["alice"].last_seen < now - CleanupAgeMs
    /\ user_presence["alice"].current_room_id = "r1"
    /\ user_presence["carol"].is_online
    /\ user_presence["carol"].last_seen = now - CleanupAgeMs

----------------------------------------------------------------------------
(* rooms.current_users *)

\* An id no room was created for yet.
NoRoom ==
    [exists |-> FALSE, type |-> "public", password_hash |-> NullHash,
     is_active |-> FALSE, current_users |-> 0]

\* CreateRoomModal.handleSubmit up to its second await: the row of rooms is
\* inserted with current_users: 0.
CRInsertRoom(r, u) ==
    /\ ~rooms[r].exists
    /\ \E type \in {"public", "password"} :
        rooms' = [rooms EXCEPT ![r] = RoomRow(type, NullHash, TRUE, 0)]
    /\ home' = [home EXCEPT !.creating = @ \cup {[room |-> r, user |-> u]}]
    /\ UNCHANGED <<room_participants, user_presence, typing_indicators, now, hookKind,
                   roomId, userName, channels, rp, pr, ty, messages, rm>>

\* handleSubmit's insert of the creator as admin participant, with the
\* trigger on room_participants.
CRInsertCreator(r, u) ==
    /\ [room |-> r, user |-> u] \in home.creating
    /\ room_participants' = InsertParticipant(room_participants, r, u)
    /\ IF room_participants' /= room_participants
       THEN /\ rooms' = CountTrigger(rooms, room_participants', r)
            /\ user_presence' = TriggerInsert(user_presence, u, r, now)
            /\ channels' = Notify(Notify(channels, "room_participants", r),
                                  "user_presence", r)
       ELSE UNCHANGED <<rooms, user_presence, channels>>
    /\ home' = [home EXCEPT !.creating = @ \ {[room |-> r, user |-> u]}]
    /\ UNCHANGED <<typing_indicators, now, hookKind, roomId, userName, rp, pr, ty,
                   messages, rm>>

\* r1 exists and is empty, r2 has not been created; alice and bob each have
\* a tab that will open r1.
InitRooms ==
    /\ EmptyStore
    /\ rooms = [r \in Rooms |-> IF r = "r1" THEN RoomRow("public", NullHash, TRUE, 0)
                                ELSE NoRoom]
    /\ home = HomeIdle
    /\ hookKind = [h \in Hooks |-> "participants"]
    /\ roomId = [h \in Hooks |-> "r1"]
    /\ userName = [h \in Hooks |-> IF h = "h1" THEN "alice" ELSE "bob"]
    /\ rp = [h \in Hooks |-> RPIdle]
    /\ pr = [h \in Hooks |-> PRIdle]
    /\ ty = [h \in Hooks |-> TYIdle]
    /\ rm = [h \in Hooks |-> RMIdle]

\* Members join and leave r1 and carol creates r2. Each statement and its
\* trigger run as one step of the store.
NextRooms ==
    \/ \E h \in Hooks :
        \/ RPMount(h)
        \/ RPJoinSelectResp(h)
        \/ RPJoinInsertResp(h)
        \/ RPJoinPresenceResp(h)
        \/ RPCleanup(h)
        \/ RPLeaveDeleteResp(h)
        \/ RPLeavePresenceResp(h)
    \/ CRInsertRoom("r2", "carol")
    \/ CRInsertCreator("r2", "carol")

SpecRooms == InitRooms /\ [][NextRooms]_vars

\* C35: current_users of every room equals the number of room_participants
\* rows of the room, after every insert and every delete, the insert of the
\* creator's admin row included.
C35_CountMatchesRows ==
    \A r \in Rooms :
        rooms[r].exists
        => rooms[r].current_users = CountRows(room_participants, r, Users)

\* r2 was created and holds its creator; in r1 both members joined and
\* alice has left again.
C35_Witness ==
    /\ rooms["r2"].exists
    /\ home.creating = {}
    /\ rooms["r2"].current_users = 1
    /\ rp["h1"].leavePc = "done"
    /\ rp["h2"].isJoinedRef
    /\ rooms["r1"].current_users = 1

----------------------------------------------------------------------------
(* HomePage: entering a room *)

\* Characters by code point: 'A', 'B' and the euro sign.
Chars == {65, 66, 8364}

RECURSIVE StringsUpTo(_)
StringsUpTo(n) ==
    IF n = 0 THEN {<<>>}
    ELSE LET shorter == StringsUpTo(n - 1)
         IN  shorter \cup {Append(p, c) : p \in shorter, c \in Chars}

Passwords == StringsUpTo(MaxPwLen)

\* btoa throws InvalidCharacterError for a character outside Latin-1.
BtoaThrows(str) == \E i \in 1..Len(str) : str[i] > 255

\* btoa: base64 of the bytes, as the sequence of its 6-bit digits; 64 is '='.
RECURSIVE Btoa(_)
Btoa(str) ==
    IF Len(str) = 0 THEN <<>>
    ELSE IF Len(str) = 1
    THEN <<str[1] \div 4, (str[1] % 4) * 16, 64, 64>>
    ELSE IF Len(str) = 2
    THEN <<str[1] \div 4, (str[1] % 4) * 16 + str[2] \div 16,
           (str[2] % 16) * 4, 64>>
    ELSE <<str[1] \div 4, (str[1] % 4) * 16 + str[2] \div 16,
           (str[2] % 16) * 4 + str[3] \div 64, str[3] % 64>>
         \o Btoa(SubSeq(str, 4, Len(str)))

\* loadRooms' select: the active public and password rooms, each with its
\* counted participants.
LoadedRooms ==
    [r \in {x \in Rooms : RoomVisible(rooms[x])} |->
        [rooms[r] EXCEPT !.current_users = CountRows(room_participants, r, Users)]]

RoomOf(hm, r) == [id |-> r, row |-> hm.rooms[r]]

\* handleJoinRoom(room), with its navigate.
JoinRoom(hm, room) ==
    IF room.row.type = "password"
    THEN [hm EXCEPT !.selectedRoom = <<room>>,
                    !.showPasswordModal = TRUE,
                    !.passwordError = ""]
    ELSE [hm EXCEPT !.currentRoom = <<room>>, !.roomId = room.id]

\* The effect on [roomId, rooms]: direct access to /room/:roomId.
DirectAccess(hm) ==
    IF hm.roomId /= Null /\ hm.roomId \in DOMAIN hm.rooms
    THEN JoinRoom(hm, RoomOf(hm, hm.roomId))
    ELSE hm

HPFrame ==
    UNCHANGED <<rooms, room_participants, user_presence, typing_indicators, now,
                hookKind, roomId, userName, channels, rp, pr, ty, messages, rm>>

\* loadRooms after its awaits: setRooms, then the effect.
HPLoadRooms ==
    /\ home' = DirectAccess([home EXCEPT !.rooms = LoadedRooms])
    /\ HPFrame

\* The browser opens /room/r: the route parameter changes, then the effect.
HPOpenUrl(r) ==
    /\ home.roomId /= r
    /\ home' = DirectAccess([home EXCEPT !.roomId = r])
    /\ HPFrame

\* A click on the card of room r in the list.
HPClickRoom(r) ==
    /\ home.currentRoom = <<>>
    /\ r \in DOMAIN home.rooms
    /\ home' = DirectAccess(JoinRoom(home, RoomOf(home, r)))
    /\ HPFrame

\* handlePasswordSubmit(password), called from the password modal.
HPPasswordSubmit(password) ==
    /\ home.currentRoom = <<>>
    /\ home.showPasswordModal
    /\ home.selectedRoom /= <<>>
    /\ home.submits < MaxSubmits
    /\ LET called == [home EXCEPT !.submits = @ + 1, !.password = password]
           room == home.selectedRoom[1]
       IN  home' =
            IF BtoaThrows(password)
            THEN [called EXCEPT !.passwordError = "Failed to join room"]
            ELSE IF Btoa(password) /= room.row.password_hash
            THEN [called EXCEPT !.passwordError = "Incorrect password"]
            ELSE DirectAccess([called EXCEPT !.passwordError = "",
                                             !.currentRoom = <<room>>,
                                             !.roomId = room.id,
                                             !.showPasswordModal = FALSE,
                                             !.selectedRoom = <<>>])
    /\ HPFrame

\* handleLeaveRoom: setCurrentRoom(null), navigate('/').
HPLeaveRoom ==
    /\ home.currentRoom /= <<>>
    /\ home' = [home EXCEPT !.currentRoom = <<>>, !.roomId = Null]
    /\ HPFrame

\* r1 is a password room with the password "AB", r2 is public.
InitHome ==
    /\ EmptyStore
    /\ rooms = [r \in Rooms |->
                    IF r = "r1" THEN RoomRow("password", Btoa(<<65, 66>>), TRUE, 0)
                    ELSE RoomRow("public", NullHash, TRUE, 0)]
    /\ home = HomeIdle
    /\ hookKind = [h \in Hooks |-> "none"]
    /\ roomId = [h \in Hooks |-> "r1"]
    /\ userName = [h \in Hooks |-> "alice"]
    /\ rp = [h \in Hooks |-> RPIdle]
    /\ pr = [h \in Hooks |-> PRIdle]
    /\ ty = [h \in Hooks |-> TYIdle]
    /\ rm = [h \in Hooks |-> RMIdle]

NextHome ==
    \/ HPLoadRooms
    \/ \E r \in Rooms : HPOpenUrl(r) \/ HPClickRoom(r)
    \/ \E password \in Passwords : HPPasswordSubmit(password)
    \/ HPLeaveRoom

SpecHome == InitHome /\ [][NextHome]_vars

\* The step is a call of handlePasswordSubmit.
Submitted == home'.submits = home.submits + 1

\* The password is the one whose encoding the store holds for the room.
RightPassword(password, r) ==
    ~BtoaThrows(password) /\ Btoa(password) = rooms[r].password_hash

\* C37: currentRoom becomes a password room only in a call of
\* handlePasswordSubmit with the right password, and a call with a wrong
\* password leaves currentRoom as it was and sets 'Incorrect password'.
C37_PasswordGate ==
    [][/\ (home'.currentRoom /= home.currentRoom /\ home'.currentRoom /= <<>>
           /\ home'.currentRoom[1].row.type = "password")
          => Submitted /\ RightPassword(home'.password, home'.currentRoom[1].id)
       /\ (Submitted /\ ~RightPassword(home'.password, home.selectedRoom[1].id))
          => /\ home'.currentRoom = home.currentRoom
             /\ home'.passwordError = "Incorrect password"]_vars

====
